---- MODULE Spec2Model ----
(***************************************************************************)
(* A model of gopcap, a decoder of .pcap capture files.                    *)
(*                                                                         *)
(* Bytes are the integers 0..255 and a byte source is a sequence of bytes  *)
(* read front to back, as bytes.Reader and os.File deliver it: a Read of n *)
(* bytes returns min(n, available) bytes, and io.EOF only when none is     *)
(* left.  Every decoder is an operator from the bytes its reader can still *)
(* deliver to a record holding the error it returns (err), the number of   *)
(* bytes it took from the reader (n) and the value it built.               *)
(*                                                                         *)
(* Errors are strings: "nil", the package's four error values              *)
(* ("NotAPcapFile", "InsufficientLength", "UnexpectedEOF",                 *)
(* "IncorrectPacket") and the two of package io ("EOF" for io.EOF,         *)
(* "ErrUnexpectedEOF" for io.ErrUnexpectedEOF).                            *)
(*                                                                         *)
(* Parse (src/api.go) names its two helpers populateFileHeader and         *)
(* parsePacket; the repository's reader-based code defines them as         *)
(* PcapFile.readFileHeader and Packet.ReadFrom, which is what is modelled. *)
(***************************************************************************)
EXTENDS Integers, Sequences, FiniteSets, TLC

VARIABLES
    src,        \* Parse: the whole byte source handed to Parse
    pos,        \* Parse: number of bytes of src consumed so far
    pc,         \* Parse: position in Parse's control flow
    magicOut,   \* Parse: the three values checkMagicNum returned
    file,       \* Parse: the PcapFile under construction
    err,        \* Parse: the local variable err
    unit        \* a single decoder call on its own: its input and output

vars == <<src, pos, pc, magicOut, file, err, unit>>

---------------------------------------------------------------------------
(* Sequences of bytes *)

Min(a, b) == IF a < b THEN a ELSE b

Take(s, k) == SubSeq(s, 1, Min(k, Len(s)))

Drop(s, k) == SubSeq(s, Min(k, Len(s)) + 1, Len(s))

Zeros(k) == [i \in 1..k |-> 0]

\* s[off+1 .. off+size], the bytes a field at offset off occupies
Slice(s, off, size) == SubSeq(s, off + 1, off + size)

---------------------------------------------------------------------------
(* Error values *)

Nil == "nil"
NotAPcapFile == "NotAPcapFile"
InsufficientLength == "InsufficientLength"
UnexpectedEOF == "UnexpectedEOF"
IncorrectPacket == "IncorrectPacket"
EOF == "EOF"
ErrUnexpectedEOF == "ErrUnexpectedEOF"

---------------------------------------------------------------------------
(* encoding/binary and io *)

BigEndian == "BigEndian"
LittleEndian == "LittleEndian"
NoOrder == "nil"

networkByteOrder == BigEndian

\* order.Uint16 / order.Uint32 of a 2- or 4-byte slice
Uint16(b, order) ==
    IF order = LittleEndian THEN b[2] * 256 + b[1] ELSE b[1] * 256 + b[2]

Uint32(b, order) ==
    IF order = LittleEndian
    THEN b[4] * 16777216 + b[3] * 65536 + b[2] * 256 + b[1]
    ELSE b[1] * 16777216 + b[2] * 65536 + b[3] * 256 + b[4]

\* the same four bytes as a two's complement int32
Int32(b, order) ==
    LET top == IF order = LittleEndian THEN b[4] ELSE b[1]
        inv == [i \in 1..4 |-> 255 - b[i]]
    IN IF top < 128 THEN Uint32(b, order) ELSE (0 - 1) - Uint32(inv, order)

\* io.ReadFull of size bytes, as binary.Read does for one fixed-size field:
\* io.EOF when nothing is left, io.ErrUnexpectedEOF when too little is left
binaryRead(data, size) ==
    IF Len(data) >= size THEN [err |-> Nil, n |-> size]
    ELSE IF Len(data) = 0 THEN [err |-> EOF, n |-> 0]
    ELSE [err |-> ErrUnexpectedEOF, n |-> Len(data)]

\* the rest of the loop of readFields once off bytes have been read: one
\* binary.Read per field, stopping at the first error
RECURSIVE readFieldsFrom(_, _, _)
readFieldsFrom(data, off, sizes) ==
    IF sizes = <<>> THEN [err |-> Nil, n |-> off]
    ELSE IF binaryRead(Drop(data, off), Head(sizes)).err = Nil
    THEN readFieldsFrom(data, off + Head(sizes), Tail(sizes))
    ELSE [err |-> binaryRead(Drop(data, off), Head(sizes)).err,
          n |-> off + binaryRead(Drop(data, off), Head(sizes)).n]

\* readFields: err is the error of the first read that fails, n the number
\* of bytes taken from the source
readFields(data, sizes) == readFieldsFrom(data, 0, sizes)

\* src.Read(buf) with len(buf) = size: the count and the error
Read(data, size) ==
    IF Len(data) = 0 THEN [n |-> 0, err |-> EOF]
    ELSE [n |-> Min(size, Len(data)), err |-> Nil]

\* the value of a field that binary.Read fills only when its read succeeds
FieldU16(data, off, order) ==
    IF Len(data) >= off + 2 THEN Uint16(Slice(data, off, 2), order) ELSE 0

FieldU32(data, off, order) ==
    IF Len(data) >= off + 4 THEN Uint32(Slice(data, off, 4), order) ELSE 0

FieldI32(data, off, order) ==
    IF Len(data) >= off + 4 THEN Int32(Slice(data, off, 4), order) ELSE 0

FieldU8(data, off) == IF Len(data) >= off + 1 THEN data[off + 1] ELSE 0

FieldBytes(data, off, size) ==
    IF Len(data) >= off + size THEN Slice(data, off, size) ELSE Zeros(size)

---------------------------------------------------------------------------
(* Program constants *)

ETHERNET == 1
ETHERTYPE_IPV4 == 2048
ETHERTYPE_IPV6 == 34525
IPP_TCP == 6
IPP_UDP == 17
IPP_SCTP == 132
minEtherType == 1536

magic == <<161, 178, 195, 212>>
magic_reverse == <<212, 195, 178, 161>>

---------------------------------------------------------------------------
(* Transport layer *)

\* the zero value of an interface field that was never assigned
NoLayer == [kind |-> "nil"]

\* a mutant of BitSet: the byte is compared with the mask
BitSetAtLeast(b, mask) == b >= mask

\* whether the bits of mask (a power of two) are set in byte b
BitSet(b, mask) == (b \div mask) % 2 = 1

\* UnknownTransport.ReadFrom: ioutil.ReadAll of the reader
UnknownTransport_ReadFrom(data) ==
    [err |-> Nil, n |-> Len(data),
     pkt |-> [kind |-> "UnknownTransport", data |-> data]]

\* TCPSegment.ReadFrom
TCPSegment_ReadFrom(data) ==
    LET hdr == readFields(data, <<2, 2, 4, 4, 2, 2, 2, 2>>)
        offsetAndFlags == FieldBytes(data, 12, 2)
        t0 == [kind |-> "TCPSegment",
               SourcePort |-> FieldU16(data, 0, networkByteOrder),
               DestinationPort |-> FieldU16(data, 2, networkByteOrder),
               SequenceNumber |-> FieldU32(data, 4, networkByteOrder),
               AckNumber |-> FieldU32(data, 8, networkByteOrder),
               HeaderSize |-> 0,
               NS |-> FALSE, CWR |-> FALSE, ECE |-> FALSE, URG |-> FALSE,
               ACK |-> FALSE, PSH |-> FALSE, RST |-> FALSE, SYN |-> FALSE,
               FIN |-> FALSE,
               WindowSize |-> FieldU16(data, 14, networkByteOrder),
               Checksum |-> FieldU16(data, 16, networkByteOrder),
               UrgentOffset |-> FieldU16(data, 18, networkByteOrder),
               OptionData |-> <<>>, data |-> <<>>]
        HeaderSize == offsetAndFlags[1] \div 16
        flags == offsetAndFlags[2]
        \* uint8 arithmetic: (HeaderSize - 5) * 4 wraps modulo 256
        extraBytes == (((HeaderSize + 256 - 5) % 256) * 4) % 256
        rest == Drop(data, 20)
        rd == Read(rest, extraBytes)
        t1 == [t0 EXCEPT !.HeaderSize = HeaderSize,
                         !.NS = BitSet(offsetAndFlags[1], 1),
                         !.CWR = BitSet(flags, 128),
                         !.ECE = BitSet(flags, 64),
                         !.URG = BitSet(flags, 32),
                         !.ACK = BitSet(flags, 16),
                         !.PSH = BitSet(flags, 8),
                         !.RST = BitSet(flags, 4),
                         !.SYN = BitSet(flags, 2),
                         !.FIN = BitSet(flags, 1),
                         !.OptionData = Take(rest, extraBytes)
                                          \o Zeros(extraBytes - rd.n)]
    IN IF hdr.err # Nil THEN [err |-> hdr.err, n |-> hdr.n, pkt |-> t0]
       ELSE IF rd.n < extraBytes
       THEN [err |-> InsufficientLength, n |-> 20 + rd.n, pkt |-> t1]
       ELSE [err |-> Nil, n |-> Len(data),
             pkt |-> [t1 EXCEPT !.data = Drop(rest, extraBytes)]]

\* UDPDatagram.FromBytes, given every byte its reader holds
UDPDatagram_FromBytes(data) ==
    LET u0 == [kind |-> "UDPDatagram", SourcePort |-> 0, DestinationPort |-> 0,
               Length |-> 0, Checksum |-> 0, data |-> <<>>]
    IN IF Len(data) < 8
       THEN [err |-> InsufficientLength, n |-> Len(data), pkt |-> u0]
       ELSE [err |-> Nil, n |-> Len(data),
             pkt |-> [u0 EXCEPT
                 !.SourcePort = Uint16(Slice(data, 0, 2), BigEndian),
                 !.DestinationPort = Uint16(Slice(data, 2, 2), BigEndian),
                 !.Length = Uint16(Slice(data, 4, 2), BigEndian),
                 !.Checksum = Uint16(Slice(data, 6, 2), BigEndian),
                 !.data = Drop(data, 8)]]

---------------------------------------------------------------------------
(* SCTP chunks and their parameters.  A slice expression out of range makes
   the Go runtime panic; the decoders then return nothing, which the model
   records as the error "panic". *)

Panic == "panic"

\* getUint16 and getUint32
getUint16(buf, flipped) ==
    IF flipped THEN buf[2] * 256 + buf[1] ELSE buf[1] * 256 + buf[2]

getUint32(buf, flipped) ==
    IF flipped
    THEN buf[4] * 16777216 + buf[3] * 65536 + buf[2] * 256 + buf[1]
    ELSE buf[1] * 16777216 + buf[2] * 65536 + buf[3] * 256 + buf[4]

\* SCTPChunkParameterHeader.FromBytes
SCTPChunkParameterHeader_FromBytes(data) ==
    IF Len(data) < 4
    THEN [err |-> InsufficientLength, Type |-> 0, Length |-> 0]
    ELSE [err |-> Nil, Type |-> getUint16(Slice(data, 0, 2), FALSE),
          Length |-> getUint16(Slice(data, 2, 2), FALSE)]

\* SCTPChunkParameterUnknown.FromBytes: data[:4] and data[4:] of a slice
\* shorter than 4 bytes are out of range
SCTPChunkParameterUnknown_FromBytes(data) ==
    LET h == SCTPChunkParameterHeader_FromBytes(Take(data, 4))
    IN IF Len(data) < 4 THEN [err |-> Panic]
       ELSE [err |-> Nil, kind |-> "SCTPChunkParameterUnknown",
             Type |-> h.Type, Length |-> h.Length, Data |-> Drop(data, 4)]

\* SCTPChunkParameterIPv4Sender.FromBytes
SCTPChunkParameterIPv4Sender_FromBytes(data) ==
    LET h == SCTPChunkParameterHeader_FromBytes(Take(data, 4))
    IN IF Len(data) < 8 THEN [err |-> InsufficientLength]
       ELSE IF h.Type # 5 THEN [err |-> IncorrectPacket]
       ELSE [err |-> Nil, kind |-> "SCTPChunkParameterIPv4Sender",
             Type |-> h.Type, Length |-> h.Length,
             Address |-> Slice(data, 4, 4)]

\* SCTPChunkParameterIPv6Sender.FromBytes
SCTPChunkParameterIPv6Sender_FromBytes(data) ==
    LET h == SCTPChunkParameterHeader_FromBytes(Take(data, 4))
    IN IF Len(data) < 20 THEN [err |-> InsufficientLength]
       ELSE IF h.Type # 6 THEN [err |-> IncorrectPacket]
       ELSE [err |-> Nil, kind |-> "SCTPChunkParameterIPv6Sender",
             Type |-> h.Type, Length |-> h.Length,
             Address |-> Slice(data, 4, 16)]

\* SCTPChunkParameterCookieLifespanInc.FromBytes
SCTPChunkParameterCookieLifespanInc_FromBytes(data) ==
    LET h == SCTPChunkParameterHeader_FromBytes(Take(data, 4))
    IN IF Len(data) < 8 THEN [err |-> InsufficientLength]
       ELSE IF h.Type # 9 THEN [err |-> IncorrectPacket]
       ELSE [err |-> Nil, kind |-> "SCTPChunkParameterCookieLifespanInc",
             Type |-> h.Type, Length |-> h.Length,
             Increment |-> getUint32(Slice(data, 4, 4), FALSE)]

\* SCTPChunkParameterHeartbeatInfo.FromBytes: 4+p.Length is a uint16 sum
SCTPChunkParameterHeartbeatInfo_FromBytes(data) ==
    LET h == SCTPChunkParameterHeader_FromBytes(Take(data, 4))
        end == (4 + h.Length) % 65536
    IN IF Len(data) < 4 THEN [err |-> InsufficientLength]
       ELSE IF h.Type # 1 THEN [err |-> IncorrectPacket]
       ELSE IF Len(data) % 65536 < end THEN [err |-> InsufficientLength]
       ELSE IF end < 4 THEN [err |-> Panic]
       ELSE [err |-> Nil, kind |-> "SCTPChunkParameterHeartbeatInfo",
             Type |-> h.Type, Length |-> h.Length,
             Info |-> Slice(data, 4, end - 4)]

\* parseSCTPInitChunkParameter
parseSCTPInitChunkParameter(header, data) ==
    CASE header.Type = 5 -> SCTPChunkParameterIPv4Sender_FromBytes(data)
      [] header.Type = 6 -> SCTPChunkParameterIPv6Sender_FromBytes(data)
      [] header.Type = 9 -> SCTPChunkParameterCookieLifespanInc_FromBytes(data)
      [] OTHER -> SCTPChunkParameterUnknown_FromBytes(data)

\* parseSCTPErrorChunkParameter
parseSCTPErrorChunkParameter(header, data) ==
    SCTPChunkParameterUnknown_FromBytes(data)

\* a decoded parameter put in front of those decoded after it
PrependTo(parameter, rest) ==
    IF rest.err # Nil THEN rest
    ELSE [err |-> Nil, parameters |-> <<parameter>> \o rest.parameters]

\* parseSCTPChunkParameters; init selects parseSCTPInitChunkParameter,
\* otherwise parseSCTPErrorChunkParameter is the parser.  A parameter of
\* declared length 0 leaves data as it was: its parser then fails, for a
\* slice of no bytes.
RECURSIVE parseSCTPChunkParameters(_, _)

\* parameters = append(parameters, parameter) and the rest of the loop
ParametersAfter(parameter, data, init) ==
    IF parameter.err # Nil THEN [err |-> parameter.err, parameters |-> <<>>]
    ELSE PrependTo(parameter, parseSCTPChunkParameters(data, init))

parseSCTPChunkParameters(data, init) ==
    IF Len(data) = 0 THEN [err |-> Nil, parameters |-> <<>>]
    ELSE LET header == SCTPChunkParameterHeader_FromBytes(data)
             parameterData == Take(data, header.Length)
         IN IF header.err # Nil THEN [err |-> header.err, parameters |-> <<>>]
            ELSE IF Len(data) < header.Length
            THEN [err |-> InsufficientLength, parameters |-> <<>>]
            ELSE ParametersAfter(
                     IF init
                     THEN parseSCTPInitChunkParameter(header, parameterData)
                     ELSE parseSCTPErrorChunkParameter(header, parameterData),
                     Drop(data, header.Length), init)

\* one iteration of the loop of parseSCTPChunkParameters on the bytes data
\* that are left: err is the error the iteration returns, if any, and data
\* what is left after it
parameterLoopIteration(data, init) ==
    LET header == SCTPChunkParameterHeader_FromBytes(data)
    IN IF header.err # Nil THEN [err |-> header.err, data |-> data]
       ELSE IF Len(data) < header.Length
       THEN [err |-> InsufficientLength, data |-> data]
       ELSE [err |-> (IF init
                      THEN parseSCTPInitChunkParameter(
                               header, Take(data, header.Length))
                      ELSE parseSCTPErrorChunkParameter(
                               header, Take(data, header.Length))).err,
             data |-> Drop(data, header.Length)]

\* SCTPChunkHeader.FromBytes
SCTPChunkHeader_FromBytes(data) ==
    IF Len(data) < 4
    THEN [err |-> InsufficientLength, Type |-> 0, Flags |-> 0, Length |-> 0]
    ELSE [err |-> Nil, Type |-> data[1], Flags |-> data[2],
          Length |-> getUint16(Slice(data, 2, 2), FALSE)]

\* the fields every chunk embeds
ChunkBase(kind, h) ==
    [err |-> Nil, kind |-> kind, Type |-> h.Type, Flags |-> h.Flags,
     Length |-> h.Length]

\* SCTPChunkUnknown.FromBytes
SCTPChunkUnknown_FromBytes(data) ==
    LET h == SCTPChunkHeader_FromBytes(data)
    IN IF h.err # Nil THEN [err |-> h.err]
       ELSE ChunkBase("SCTPChunkUnknown", h) @@ [Data |-> Drop(data, 4)]

\* SCTPChunkData.FromBytes
SCTPChunkData_FromBytes(data) ==
    LET h == SCTPChunkHeader_FromBytes(Take(data, 4))
    IN IF Len(data) < 16 THEN [err |-> InsufficientLength]
       ELSE IF h.Type # 0 THEN [err |-> IncorrectPacket]
       ELSE ChunkBase("SCTPChunkData", h)
              @@ [TSN |-> getUint32(Slice(data, 4, 4), FALSE),
                  StreamIdentifier |-> getUint16(Slice(data, 8, 2), FALSE),
                  StreamSequenceNumber |->
                      getUint16(Slice(data, 10, 2), FALSE),
                  PayloadProtocolIdentifier |->
                      getUint32(Slice(data, 12, 4), FALSE),
                  Data |-> Drop(data, 16)]

\* c.Parameters = parameters, or the error of parseSCTPChunkParameters
WithParameters(chunk, ps) ==
    IF ps.err # Nil THEN [err |-> ps.err]
    ELSE chunk @@ [Parameters |-> ps.parameters]

\* the chunk with the one parameter it owns, or the parameter's error
WithParameter(chunk, p) ==
    IF p.err # Nil THEN [err |-> p.err] ELSE chunk @@ [Parameter |-> p]

\* SCTPChunkInit.FromBytes: data[20:c.Length] is out of range when
\* c.Length is below 20 or above len(data)
SCTPChunkInit_FromBytes(data) ==
    LET h == SCTPChunkHeader_FromBytes(Take(data, 4))
    IN IF Len(data) < 20 THEN [err |-> InsufficientLength]
       ELSE IF h.Type # 1 /\ h.Type # 2 THEN [err |-> IncorrectPacket]
       ELSE IF h.Length < 20 \/ h.Length > Len(data) THEN [err |-> Panic]
       ELSE WithParameters(
              ChunkBase("SCTPChunkInit", h)
              @@ [InitiateTag |-> getUint32(Slice(data, 4, 4), FALSE),
                  AdvertisedReceiverWindowCredit |->
                      getUint32(Slice(data, 8, 4), FALSE),
                  NumOutboundStreams |-> getUint16(Slice(data, 12, 2), FALSE),
                  NumInboundStreams |-> getUint16(Slice(data, 14, 2), FALSE),
                  InitialTSN |-> getUint32(Slice(data, 16, 4), FALSE)],
              parseSCTPChunkParameters(Slice(data, 20, h.Length - 20), TRUE))

\* SCTPChunkSack.FromBytes.  The length test adds in uint16.  GapACKBlocks is
\* made with NumGapACKBlocks entries and the loop that fills it runs to
\* NumGapACKBlocks*2 (in uint16): an index past the end, or a slice of data
\* past its end, makes the runtime panic.  data is a slice whose capacity
\* is its length.
SCTPChunkSack_FromBytes(data) ==
    LET h == SCTPChunkHeader_FromBytes(Take(data, 4))
        NumGapACKBlocks == getUint16(Slice(data, 12, 2), FALSE)
        NumDuplicateTSNs == getUint16(Slice(data, 14, 2), FALSE)
        need == (16 + 4 * NumGapACKBlocks + 4 * NumDuplicateTSNs) % 65536
        rounds == (NumGapACKBlocks * 2) % 65536
    IN IF Len(data) < 16 THEN [err |-> InsufficientLength]
       ELSE IF h.Type # 3 THEN [err |-> IncorrectPacket]
       ELSE IF Len(data) % 65536 < need THEN [err |-> InsufficientLength]
       ELSE IF rounds > NumGapACKBlocks THEN [err |-> Panic]
       ELSE IF Len(data) < 16 + 2 * rounds + 4 * NumDuplicateTSNs
       THEN [err |-> Panic]
       ELSE ChunkBase("SCTPChunkSack", h)
              @@ [CumulativeTSNACK |-> getUint32(Slice(data, 4, 4), FALSE),
                  AdvertisedReceivedWindowCredit |->
                      getUint32(Slice(data, 8, 4), FALSE),
                  NumGapACKBlocks |-> NumGapACKBlocks,
                  NumDuplicateTSNs |-> NumDuplicateTSNs,
                  GapACKBlocks |->
                      [i \in 1..NumGapACKBlocks |->
                          IF i <= rounds
                          THEN getUint16(Slice(data, 14 + 2 * i, 2), FALSE)
                          ELSE 0],
                  DuplicateTSNs |->
                      [i \in 1..NumDuplicateTSNs |->
                          getUint32(Slice(data, 12 + 2 * rounds + 4 * i, 4),
                                    FALSE)]]

\* SCTPChunkHeartbeat.FromBytes
SCTPChunkHeartbeat_FromBytes(data) ==
    LET h == SCTPChunkHeader_FromBytes(Take(data, 4))
    IN IF Len(data) < 4 THEN [err |-> InsufficientLength]
       ELSE IF h.Type # 4 /\ h.Type # 5 THEN [err |-> IncorrectPacket]
       ELSE IF h.Length < 4 \/ h.Length > Len(data) THEN [err |-> Panic]
       ELSE WithParameter(
              ChunkBase("SCTPChunkHeartbeat", h),
              SCTPChunkParameterHeartbeatInfo_FromBytes(
                  Slice(data, 4, h.Length - 4)))

\* SCTPChunkAbort.FromBytes
SCTPChunkAbort_FromBytes(data) ==
    LET h == SCTPChunkHeader_FromBytes(Take(data, 4))
    IN IF Len(data) < 8 THEN [err |-> InsufficientLength]
       ELSE IF h.Type # 6 THEN [err |-> IncorrectPacket]
       ELSE ChunkBase("SCTPChunkAbort", h)
              @@ [Errors |-> getUint32(Slice(data, 4, 4), FALSE)]

\* SCTPChunkShutdown.FromBytes
SCTPChunkShutdown_FromBytes(data) ==
    LET h == SCTPChunkHeader_FromBytes(Take(data, 4))
    IN IF Len(data) < 8 THEN [err |-> InsufficientLength]
       ELSE IF h.Type # 7 THEN [err |-> IncorrectPacket]
       ELSE ChunkBase("SCTPChunkShutdown", h)
              @@ [CumulativeTSNACK |-> getUint32(Slice(data, 4, 4), FALSE)]

\* SCTPChunkShutdownAck.FromBytes, SCTPChunkCookieAck.FromBytes and
\* SCTPChunkShutdownComplete.FromBytes: a header of the expected type
SCTPChunkHeaderOnly_FromBytes(kind, expected, data) ==
    LET h == SCTPChunkHeader_FromBytes(Take(data, 4))
    IN IF Len(data) < 4 THEN [err |-> InsufficientLength]
       ELSE IF h.Type # expected THEN [err |-> IncorrectPacket]
       ELSE ChunkBase(kind, h)

\* SCTPChunkError.FromBytes
SCTPChunkError_FromBytes(data) ==
    LET h == SCTPChunkHeader_FromBytes(Take(data, 4))
    IN IF Len(data) < 4 THEN [err |-> InsufficientLength]
       ELSE IF h.Type # 9 THEN [err |-> IncorrectPacket]
       ELSE IF h.Length < 4 \/ h.Length > Len(data) THEN [err |-> Panic]
       ELSE WithParameters(
              ChunkBase("SCTPChunkError", h),
              parseSCTPChunkParameters(Slice(data, 4, h.Length - 4), FALSE))

\* SCTPChunkCookieEcho.FromBytes
SCTPChunkCookieEcho_FromBytes(data) ==
    LET h == SCTPChunkHeader_FromBytes(Take(data, 4))
    IN IF Len(data) < 4 THEN [err |-> InsufficientLength]
       ELSE IF h.Type # 10 THEN [err |-> IncorrectPacket]
       ELSE IF Len(data) % 65536 < h.Length THEN [err |-> InsufficientLength]
       ELSE IF h.Length < 4 \/ h.Length > Len(data) THEN [err |-> Panic]
       ELSE ChunkBase("SCTPChunkCookieEcho", h)
              @@ [Cookie |-> Slice(data, 4, h.Length - 4)]

\* FromBytes of *SCTPChunkInitAck.  The type is declared as
\* "type SCTPChunkInitAck SCTPChunkInit": it has the fields of
\* SCTPChunkInit but not its methods, so its FromBytes is the one promoted
\* from the embedded SCTPChunkHeader and the other fields stay zero.
SCTPChunkInitAck_FromBytes(data) ==
    LET h == SCTPChunkHeader_FromBytes(data)
    IN IF h.err # Nil THEN [err |-> h.err]
       ELSE ChunkBase("SCTPChunkInitAck", h)
              @@ [InitiateTag |-> 0, AdvertisedReceiverWindowCredit |-> 0,
                  NumOutboundStreams |-> 0, NumInboundStreams |-> 0,
                  InitialTSN |-> 0, Parameters |-> <<>>]

\* FromBytes of *SCTPChunkHeartbeatAck, declared as
\* "type SCTPChunkHeartbeatAck SCTPChunkHeartbeat": the FromBytes promoted
\* from the embedded SCTPChunkHeader; Parameter stays zero.
SCTPChunkHeartbeatAck_FromBytes(data) ==
    LET h == SCTPChunkHeader_FromBytes(data)
    IN IF h.err # Nil THEN [err |-> h.err]
       ELSE ChunkBase("SCTPChunkHeartbeatAck", h)
              @@ [Parameter |-> [kind |-> "SCTPChunkParameterHeartbeatInfo",
                                 Type |-> 0, Length |-> 0, Info |-> <<>>]]

\* parseSCTPChunk: the switch on header.Type (SACK, type 3, is not in it)
\* and chunk.FromBytes(data)
parseSCTPChunk(header, data) ==
    CASE header.Type = 0 -> SCTPChunkData_FromBytes(data)
      [] header.Type = 1 -> SCTPChunkInit_FromBytes(data)
      [] header.Type = 2 -> SCTPChunkInitAck_FromBytes(data)
      [] header.Type = 4 -> SCTPChunkHeartbeat_FromBytes(data)
      [] header.Type = 5 -> SCTPChunkHeartbeatAck_FromBytes(data)
      [] header.Type = 6 -> SCTPChunkAbort_FromBytes(data)
      [] header.Type = 7 -> SCTPChunkShutdown_FromBytes(data)
      [] header.Type = 8 ->
            SCTPChunkHeaderOnly_FromBytes("SCTPChunkShutdownAck", 8, data)
      [] header.Type = 9 -> SCTPChunkError_FromBytes(data)
      [] header.Type = 10 -> SCTPChunkCookieEcho_FromBytes(data)
      [] header.Type = 11 ->
            SCTPChunkHeaderOnly_FromBytes("SCTPChunkCookieAck", 11, data)
      [] header.Type = 14 ->
            SCTPChunkHeaderOnly_FromBytes("SCTPChunkShutdownComplete", 14,
                                          data)
      [] OTHER -> SCTPChunkUnknown_FromBytes(data)

\* a mutant of ChunkActualLength: the declared length, not rounded
ChunkActualLengthUnpadded(Length) == Length

\* header.Length + (4-(header.Length%4))%4 in uint16 arithmetic
ChunkActualLength(Length) == (Length + ((4 - (Length % 4)) % 4)) % 65536

\* parseSCTPChunks
RECURSIVE parseSCTPChunks(_)

\* a decoded chunk put in front of those decoded after it
PrependChunk(chunk, rest) ==
    IF rest.err # Nil THEN rest
    ELSE [err |-> Nil, chunks |-> <<chunk>> \o rest.chunks]

\* chunks = append(chunks, chunk) and the rest of the loop
ChunksAfter(chunk, data) ==
    IF chunk.err # Nil THEN [err |-> chunk.err, chunks |-> <<>>]
    ELSE PrependChunk(chunk, parseSCTPChunks(data))

parseSCTPChunks(data) ==
    IF Len(data) = 0 THEN [err |-> Nil, chunks |-> <<>>]
    ELSE LET header == SCTPChunkHeader_FromBytes(data)
             actualLength == ChunkActualLength(header.Length)
         IN IF header.err # Nil THEN [err |-> header.err, chunks |-> <<>>]
            ELSE IF Len(data) < actualLength
            THEN [err |-> InsufficientLength, chunks |-> <<>>]
            ELSE ChunksAfter(parseSCTPChunk(header, Take(data, actualLength)),
                             Drop(data, actualLength))

\* one iteration of the loop of parseSCTPChunks on the bytes data that are
\* left: err is the error the iteration returns, if any, and data what is
\* left after it
chunkLoopIteration(data) ==
    LET header == SCTPChunkHeader_FromBytes(data)
        actualLength == ChunkActualLength(header.Length)
    IN IF header.err # Nil THEN [err |-> header.err, data |-> data]
       ELSE IF Len(data) < actualLength
       THEN [err |-> InsufficientLength, data |-> data]
       ELSE [err |-> parseSCTPChunk(header, Take(data, actualLength)).err,
             data |-> Drop(data, actualLength)]

\* s.Chunks = chunks, or the error of the chunk decoder
WithChunks(s, n, chunks) ==
    IF chunks.err # Nil THEN [err |-> chunks.err, n |-> n, pkt |-> s]
    ELSE [err |-> Nil, n |-> n, pkt |-> [s EXCEPT !.Chunks = chunks.chunks]]

\* a mutant of ChunkData: every chunk that has a Data field contributes
RECURSIVE ChunkDataOfAny(_)
ChunkDataOfAny(chunks) ==
    IF chunks = <<>> THEN <<>>
    ELSE (IF "Data" \in DOMAIN Head(chunks) THEN Head(chunks).Data ELSE <<>>)
            \o ChunkDataOfAny(Tail(chunks))

\* the loop of SCTPSegment.TransportData: the Data of the chunks that are
\* *SCTPChunkData, appended in order
RECURSIVE ChunkData(_)
ChunkData(chunks) ==
    IF chunks = <<>> THEN <<>>
    ELSE (IF Head(chunks).kind = "SCTPChunkData" THEN Head(chunks).Data
          ELSE <<>>) \o ChunkData(Tail(chunks))

\* a mutant of SCTPSegment.TransportData
SCTPSegment_TransportDataOfAny(s) == ChunkDataOfAny(s.Chunks)

\* SCTPSegment.TransportData
SCTPSegment_TransportData(s) == ChunkData(s.Chunks)

\* SCTPSegment.ReadFrom: the 12-byte common header, then the chunks
SCTPSegment_ReadFrom(data) ==
    LET hdr == readFields(data, <<2, 2, 4, 4>>)
        s0 == [kind |-> "SCTPSegment",
               SourcePort |-> FieldU16(data, 0, networkByteOrder),
               DestinationPort |-> FieldU16(data, 2, networkByteOrder),
               VerificationTag |-> FieldU32(data, 4, networkByteOrder),
               Checksum |-> FieldU32(data, 8, networkByteOrder),
               Chunks |-> <<>>]
    IN IF hdr.err # Nil THEN [err |-> hdr.err, n |-> hdr.n, pkt |-> s0]
       ELSE WithChunks(s0, Len(data), parseSCTPChunks(Drop(data, 12)))

\* a mutant of readTransportLayer: a protocol number outside the switch is
\* an error
readTransportLayerKnownOnly(Protocol, data) ==
    CASE Protocol = IPP_TCP -> TCPSegment_ReadFrom(data)
      [] Protocol = IPP_UDP -> UDPDatagram_FromBytes(data)
      [] Protocol = IPP_SCTP -> SCTPSegment_ReadFrom(data)
      [] OTHER -> [err |-> IncorrectPacket, n |-> 0, pkt |-> NoLayer]

\* the switch of IPv4Packet.readTransportLayer and of
\* IPv6Packet.readRemainingHeaders, followed by p.data.ReadFrom(src)
readTransportLayer(Protocol, data) ==
    CASE Protocol = IPP_TCP -> TCPSegment_ReadFrom(data)
      [] Protocol = IPP_UDP -> UDPDatagram_FromBytes(data)
      [] Protocol = IPP_SCTP -> SCTPSegment_ReadFrom(data)
      [] OTHER -> UnknownTransport_ReadFrom(data)

---------------------------------------------------------------------------
(* Internet layer *)

\* a layer p that took n bytes of its own, with the child decoded from the
\* reader it shares with it: the child is kept and its error returned
WithChild(p, n, child) ==
    [err |-> child.err, n |-> n + child.n, pkt |-> [p EXCEPT !.data = child.pkt]]

\* UnknownINet.ReadFrom
UnknownINet_ReadFrom(data) ==
    WithChild([kind |-> "UnknownINet", data |-> NoLayer], 0,
              UnknownTransport_ReadFrom(data))

\* p.TotalLength - uint16(p.IHL)*4 in uint16 arithmetic
IPv4DataLen(TotalLength, IHL) == (TotalLength + 65536 - IHL * 4) % 65536

\* an IPv4 packet that took n bytes of its reader, with the transport layer
\* decoded from a reader of its own over handed
WithTransport(p, n, handed, t) ==
    [err |-> t.err, n |-> n, pkt |-> [p EXCEPT !.data = t.pkt],
     handed |-> handed]

\* a mutant of IPv4DSCP: the low six bits
IPv4DSCPLow(DSCPECN) == DSCPECN % 64

\* uint8((DSCPECN & 0xFC) >> 2)
IPv4DSCP(DSCPECN) == DSCPECN \div 4

\* IPv4Packet.ReadFrom.  handed is the byte sequence given to the transport
\* decoder (the contents of internetData), <<>> when none was.
IPv4Packet_ReadFrom(data) ==
    LET hdr == readFields(data, <<1, 1, 2, 2, 2, 1, 1, 2, 4, 4>>)
        versionIHL == FieldU8(data, 0)
        DSCPECN == FieldU8(data, 1)
        flagsFragment == FieldBytes(data, 6, 2)
        p0 == [kind |-> "IPv4Packet",
               IHL |-> 0, DSCP |-> 0, ECN |-> 0,
               TotalLength |-> FieldU16(data, 2, networkByteOrder),
               ID |-> FieldU16(data, 4, networkByteOrder),
               DontFragment |-> FALSE, MoreFragments |-> FALSE,
               FragmentOffset |-> 0,
               TTL |-> FieldU8(data, 8),
               Protocol |-> FieldU8(data, 9),
               Checksum |-> FieldU16(data, 10, networkByteOrder),
               SourceAddress |-> FieldBytes(data, 12, 4),
               DestAddress |-> FieldBytes(data, 16, 4),
               Options |-> <<>>, data |-> NoLayer]
        IHL == versionIHL % 16
        \* (flagsFragment[0] & 0x1F) << 8 is a shift of a uint8
        p1 == [p0 EXCEPT !.IHL = IHL,
                         !.DSCP = IPv4DSCP(DSCPECN),
                         !.ECN = DSCPECN % 4,
                         !.DontFragment = BitSet(flagsFragment[1], 64),
                         !.MoreFragments = BitSet(flagsFragment[1], 32),
                         !.FragmentOffset =
                             (((flagsFragment[1] % 32) * 256) % 256)
                                 + flagsFragment[2]]
        afterHdr == Drop(data, 20)
        optionLength == IF IHL > 5 THEN (IHL - 5) * 4 ELSE 0
        optRead == Read(afterHdr, optionLength)
        p2 == IF IHL > 5
              THEN [p1 EXCEPT !.Options = Take(afterHdr, optionLength)
                                  \o Zeros(optionLength - optRead.n)]
              ELSE p1
        afterOpt == Drop(afterHdr, optionLength)
        dataLen == IPv4DataLen(p0.TotalLength, IHL)
        dataRead == Read(afterOpt, dataLen)
        internetData == Take(afterOpt, dataLen)
    IN IF hdr.err # Nil
       THEN [err |-> hdr.err, n |-> hdr.n, pkt |-> p0, handed |-> <<>>]
       ELSE IF versionIHL \div 16 # 4
       THEN [err |-> IncorrectPacket, n |-> 20, pkt |-> p0, handed |-> <<>>]
       ELSE IF IHL > 5 /\ optRead.n < optionLength
       THEN [err |-> InsufficientLength, n |-> 20 + optRead.n, pkt |-> p2,
             handed |-> <<>>]
       ELSE IF dataRead.n < dataLen
       THEN [err |-> InsufficientLength, n |-> 20 + optionLength + dataRead.n,
             pkt |-> p2, handed |-> <<>>]
       ELSE WithTransport(p2, 20 + optionLength + dataLen, internetData,
                          readTransportLayer(p0.Protocol, internetData))

\* a mutant of IPv6FlowLabel: bytes 2 and 3 alone
IPv6FlowLabel16(startBytes) == startBytes[3] * 256 + startBytes[4]

\* (uint32(startBytes[1]) & 0x0F) << 16, plus uint32(startBytes[2]) << 8,
\* plus uint32(startBytes[3])
IPv6FlowLabel(startBytes) ==
    (startBytes[2] % 16) * 65536 + startBytes[3] * 256 + startBytes[4]

\* IPv6Packet.ReadFrom and readRemainingHeaders
IPv6Packet_ReadFrom(data) ==
    LET hdr == readFields(data, <<4, 2, 1, 1, 16, 16>>)
        startBytes == FieldBytes(data, 0, 4)
        p0 == [kind |-> "IPv6Packet",
               TrafficClass |-> 0, FlowLabel |-> 0,
               Length |-> FieldU16(data, 4, networkByteOrder),
               NextHeader |-> FieldU8(data, 6),
               HopLimit |-> FieldU8(data, 7),
               SourceAddress |-> FieldBytes(data, 8, 16),
               DestinationAddress |-> FieldBytes(data, 24, 16),
               data |-> NoLayer]
        p1 == [p0 EXCEPT
                 !.TrafficClass = ((((startBytes[1] % 16) * 16) % 256)
                                    + (startBytes[2] \div 16)) % 256,
                 !.FlowLabel = IPv6FlowLabel(startBytes)]
        rest == Drop(data, 40)
    IN IF hdr.err # Nil
       THEN [err |-> hdr.err, n |-> hdr.n, pkt |-> p0, handed |-> <<>>]
       ELSE IF startBytes[1] \div 16 # 6
       THEN [err |-> IncorrectPacket, n |-> 40, pkt |-> p0, handed |-> <<>>]
       ELSE WithChild(p1, 40, readTransportLayer(p0.NextHeader, rest))
                @@ [handed |-> rest]

---------------------------------------------------------------------------
(* Link layer *)

\* UnknownLink.ReadFrom
UnknownLink_ReadFrom(data) ==
    WithChild([kind |-> "UnknownLink", data |-> NoLayer], 0,
              UnknownINet_ReadFrom(data))

\* EthernetFrame.readInternetLayer: the switch on e.EtherType and
\* e.data.ReadFrom(src)
readInternetLayer(EtherType, data) ==
    CASE EtherType = ETHERTYPE_IPV4 -> IPv4Packet_ReadFrom(data)
      [] EtherType = ETHERTYPE_IPV6 -> IPv6Packet_ReadFrom(data)
      [] OTHER -> UnknownINet_ReadFrom(data)

\* a mutant of IsVLANTag: no value marks a tag
IsVLANTagNever(nextValue) == FALSE

\* nextValue == 0x8100
IsVLANTag(nextValue) == nextValue = 33024

\* a mutant of IsLength: the threshold itself taken as a length
IsLengthInclusive(nextValue) == nextValue <= minEtherType

\* the test "nextValue < minEtherType" of EthernetFrame.ReadFrom
IsLength(nextValue) == nextValue < minEtherType

\* EthernetFrame.ReadFrom
EthernetFrame_ReadFrom(data) ==
    LET macs == readFields(data, <<6, 6>>)
        e0 == [kind |-> "EthernetFrame",
               MACDestination |-> FieldBytes(data, 0, 6),
               MACSource |-> FieldBytes(data, 6, 6),
               VLANTag |-> <<>>, Length |-> 0, EtherType |-> 0,
               data |-> NoLayer]
        afterMacs == Drop(data, 12)
        first == binaryRead(afterMacs, 2)
        firstValue == FieldU16(afterMacs, 0, networkByteOrder)
        tagged == IsVLANTag(firstValue)
        afterFirst == Drop(afterMacs, 2)
        \* src.Read(vlanTag[2:]): the bytes not delivered stay zero
        tagRead == Read(afterFirst, 2)
        vlanTag == <<129, 0>> \o Take(afterFirst, 2) \o Zeros(2 - tagRead.n)
        afterTag == Drop(afterFirst, 2)
        second == binaryRead(afterTag, 2)
        e1 == IF tagged THEN [e0 EXCEPT !.VLANTag = vlanTag] ELSE e0
        nextValue == IF tagged THEN FieldU16(afterTag, 0, networkByteOrder)
                     ELSE firstValue
        used == IF tagged THEN 18 ELSE 14
        e2 == IF IsLength(nextValue)
              THEN [e1 EXCEPT !.Length = nextValue]
              ELSE [e1 EXCEPT !.EtherType = nextValue]
    IN IF macs.err # Nil THEN [err |-> macs.err, n |-> macs.n, pkt |-> e0]
       ELSE IF first.err # Nil
       THEN [err |-> first.err, n |-> 12 + first.n, pkt |-> e0]
       ELSE IF tagged /\ tagRead.err # Nil
       THEN [err |-> tagRead.err, n |-> 14, pkt |-> e0]
       ELSE IF tagged /\ second.err # Nil
       THEN [err |-> second.err, n |-> 14 + tagRead.n + second.n, pkt |-> e1]
       ELSE WithChild(e2, used,
                      readInternetLayer(e2.EtherType, Drop(data, used)))

\* a mutant of readLinkData: the link layer is decoded only under the
\* big-endian order
readLinkDataInOrder(data, order, linkType) ==
    IF linkType = ETHERNET /\ order = BigEndian
    THEN EthernetFrame_ReadFrom(data)
    ELSE UnknownLink_ReadFrom(data)

\* readLinkData: the switch on linkType and pkt.ReadFrom(src); order is a
\* parameter the function does not use
readLinkData(data, order, linkType) ==
    IF linkType = ETHERNET THEN EthernetFrame_ReadFrom(data)
    ELSE UnknownLink_ReadFrom(data)

---------------------------------------------------------------------------
(* The capture file *)

\* a mutant of checkMagicNum: the number of bytes read is not looked at
checkMagicNumUnchecked(data) ==
    LET rd == Read(data, Len(magic))
        buffer == Take(data, Len(magic))
    IN IF buffer = magic
       THEN [ok |-> TRUE, order |-> BigEndian, err |-> Nil, n |-> rd.n]
       ELSE IF buffer = magic_reverse
       THEN [ok |-> TRUE, order |-> LittleEndian, err |-> Nil, n |-> rd.n]
       ELSE [ok |-> FALSE, order |-> NoOrder, err |-> NotAPcapFile,
             n |-> rd.n]

\* checkMagicNum: ok, order and err are the three values returned, n the
\* number of bytes the Read took from the source
checkMagicNum(data) ==
    LET rd == Read(data, Len(magic))
        buffer == Take(data, Len(magic))
    IN IF rd.n # Len(magic)
       THEN [ok |-> FALSE, order |-> NoOrder, err |-> InsufficientLength,
             n |-> rd.n]
       ELSE IF buffer = magic
       THEN [ok |-> TRUE, order |-> BigEndian, err |-> Nil, n |-> rd.n]
       ELSE IF buffer = magic_reverse
       THEN [ok |-> TRUE, order |-> LittleEndian, err |-> Nil, n |-> rd.n]
       ELSE [ok |-> FALSE, order |-> NoOrder, err |-> NotAPcapFile,
             n |-> rd.n]

\* new(PcapFile)
NewPcapFile ==
    [MajorVersion |-> 0, MinorVersion |-> 0, TZCorrection |-> 0,
     SigFigs |-> 0, MaxLen |-> 0, LinkType |-> 0, Packets |-> <<>>]

\* PcapFile.readFileHeader: the fields filled and the error of readFields
readFileHeader(f, data, order) ==
    LET hdr == readFields(data, <<2, 2, 4, 4, 4, 4>>)
    IN [err |-> hdr.err, n |-> hdr.n,
        file |-> [f EXCEPT
            !.MajorVersion = FieldU16(data, 0, order),
            !.MinorVersion = FieldU16(data, 2, order),
            !.TZCorrection = FieldI32(data, 4, order),
            !.SigFigs = FieldU32(data, 8, order),
            !.MaxLen = FieldU32(data, 12, order),
            !.LinkType = FieldU32(data, 16, order)]]

\* new(Packet).  Timestamp is kept as <<seconds, microseconds>>, the two
\* header fields Packet.readPacketHeader adds up into one time.Duration.
NewPacket ==
    [Timestamp |-> <<0, 0>>, IncludedLen |-> 0, ActualLen |-> 0,
     Data |-> NoLayer]

\* Packet.readPacketHeader
readPacketHeader(data, order) ==
    LET hdr == readFields(data, <<4, 4, 4, 4>>)
        p0 == [NewPacket EXCEPT !.IncludedLen = FieldU32(data, 8, order),
                                !.ActualLen = FieldU32(data, 12, order)]
    IN IF hdr.err = ErrUnexpectedEOF
       THEN [err |-> InsufficientLength, n |-> hdr.n, pkt |-> p0]
       ELSE IF hdr.err # Nil
       THEN [err |-> hdr.err, n |-> hdr.n, pkt |-> p0]
       ELSE [err |-> Nil, n |-> hdr.n,
             pkt |-> [p0 EXCEPT !.Timestamp =
                         <<FieldU32(data, 0, order), FieldU32(data, 4, order)>>]]

\* a mutant of LimitReader: the reader is not bounded
LimitReaderUnbounded(data, limit) == data

\* io.LimitReader(src, n): the bytes the bounded reader can deliver
LimitReader(data, limit) == Take(data, limit)

\* a mutant of ReadAllRest: what the decoders left is not discarded
ReadAllRestNothing(avail, consumed) == 0

\* ioutil.ReadAll(packetReader) after the decoders took consumed of the
\* avail bytes the bounded reader held: the number of bytes it discards
ReadAllRest(avail, consumed) == avail - consumed

\* pkt.Data, err = readLinkData(...), the ReadAll that follows it and the
\* return of err; avail is the number of bytes the bounded reader held
WithLinkData(pkt, avail, l) ==
    [err |-> l.err, n |-> 16 + l.n + ReadAllRest(avail, l.n),
     pkt |-> [pkt EXCEPT !.Data = l.pkt], inner |-> l.n]

\* Packet.ReadFrom.  n is the number of bytes taken from the source; inner
\* is the number the link-layer decoder took from the bounded reader.
Packet_ReadFrom(data, order, linkType) ==
    LET h == readPacketHeader(data, order)
        packetReader == LimitReader(Drop(data, 16), h.pkt.IncludedLen)
    IN IF h.err # Nil
       THEN [err |-> h.err, n |-> h.n, pkt |-> h.pkt, inner |-> 0]
       ELSE WithLinkData(h.pkt, Len(packetReader),
                         readLinkData(packetReader, order, linkType))

---------------------------------------------------------------------------
(* Byte sources the checks run on *)

\* bounds of the inputs
MaxFrames == 2
MaxTotalLength == 64

PutUint16(v, order) ==
    IF order = LittleEndian THEN <<v % 256, v \div 256>>
    ELSE <<v \div 256, v % 256>>

PutUint32(v, order) ==
    IF order = LittleEndian
    THEN <<v % 256, (v \div 256) % 256, (v \div 65536) % 256, v \div 16777216>>
    ELSE <<v \div 16777216, (v \div 65536) % 256, (v \div 256) % 256, v % 256>>

Orders == {BigEndian, LittleEndian}

\* the link types of the capture files: ETHERNET, NULL and RAW
LinkTypes == {ETHERNET, 0, 101}

MagicOf(order) == IF order = LittleEndian THEN magic_reverse ELSE magic

\* four bytes that are neither magic number
BadMagics == {<<212, 195, 178, 160>>, <<161, 178, 212, 195>>, <<0, 0, 0, 0>>}

\* version 2.4, no time-zone correction, snap length 65535
FileHeaderBytes(order, linkType) ==
    PutUint16(2, order) \o PutUint16(4, order) \o PutUint32(0, order)
        \o PutUint32(0, order) \o PutUint32(65535, order)
        \o PutUint32(linkType, order)

\* a per-frame header declaring captured length c
PacketHeaderBytes(order, c) ==
    PutUint32(1156534266, order) \o PutUint32(654692, order)
        \o PutUint32(c, order) \o PutUint32(c, order)

EthernetHeaderBytes(v, tagged) ==
    <<0, 22, 227, 25, 39, 21, 0, 4, 118, 150, 123, 218>>
        \o (IF tagged THEN <<129, 0, 0, 5>> ELSE <<>>)
        \o PutUint16(v, BigEndian)

IPv4HeaderBytes(version, ihl, tos, totalLength, flags, frag, protocol) ==
    <<version * 16 + ihl, tos>> \o PutUint16(totalLength, BigEndian)
        \o <<118, 237, flags, frag, 64, protocol, 86, 207>>
        \o <<192, 168, 1, 2, 212, 204, 214, 114>>

IPv6HeaderBytes(b0, b1, payloadLength, nextHeader) ==
    <<b0, b1, 3, 4>> \o PutUint16(payloadLength, BigEndian)
        \o <<nextHeader, 1>>
        \o [i \in 1..16 |-> i] \o [i \in 1..16 |-> 32 + i]

TCPHeaderBytes(headerSize, flags) ==
    <<11, 32, 26, 11, 0, 0, 0, 1, 0, 0, 0, 2, headerSize * 16, flags>>
        \o <<31, 75, 109, 46, 0, 0>>

UDPHeaderBytes(length) ==
    <<0, 53, 4, 0>> \o PutUint16(length, BigEndian) \o <<171, 205>>

\* a common header and one DATA chunk of declared length 17, padded to 20
SCTPSegmentBytes ==
    <<0, 7, 0, 9, 0, 0, 0, 1, 0, 0, 0, 2>>
        \o <<0, 3, 0, 17, 0, 0, 0, 1, 0, 2, 0, 3, 0, 0, 0, 4, 88, 0, 0, 0>>

\* a transport segment for an IP protocol number
TransportBytes(protocol) ==
    CASE protocol = IPP_TCP -> TCPHeaderBytes(5, 24) \o <<71, 10>>
      [] protocol = IPP_UDP -> UDPHeaderBytes(10) \o <<71, 10>>
      [] protocol = IPP_SCTP -> SCTPSegmentBytes
      [] OTHER -> <<7, 8, 9, 10>>

\* an IPv4 datagram carrying TransportBytes(protocol), and pad bytes after it
IPv4DatagramBytes(protocol, pad) ==
    IPv4HeaderBytes(4, 5, 0, 20 + Len(TransportBytes(protocol)), 64, 0, protocol)
        \o TransportBytes(protocol) \o Zeros(pad)

IPv6DatagramBytes(nextHeader, pad) ==
    IPv6HeaderBytes(96, 0, Len(TransportBytes(nextHeader)), nextHeader)
        \o TransportBytes(nextHeader) \o Zeros(pad)

Prefixes(s) == {SubSeq(s, 1, k) : k \in 0..Len(s)}

\* the captured frames of the files given to Parse
ParseFrames ==
    { EthernetHeaderBytes(ETHERTYPE_IPV4, FALSE) \o IPv4DatagramBytes(1, 2),
      EthernetHeaderBytes(ETHERTYPE_IPV4, FALSE)
          \o IPv4HeaderBytes(6, 5, 0, 20, 64, 0, 1),
      EthernetHeaderBytes(2054, FALSE) \o <<9, 9, 9, 9>>,
      SubSeq(EthernetHeaderBytes(2054, FALSE), 1, 12),
      <<>> }

\* the frame records of a file: up to k frames, each with its header
RECURSIVE FrameRecords(_, _)
FrameRecords(order, k) ==
    IF k = 0 THEN {<<>>}
    ELSE {<<>>} \cup
         { PacketHeaderBytes(order, Len(f)) \o f \o rest :
             f \in ParseFrames, rest \in FrameRecords(order, k - 1) }

\* the byte sources given to Parse: whole and truncated capture files, and
\* files that do not start with a magic number
CaptureFiles(order) ==
    { MagicOf(order) \o FileHeaderBytes(order, linkType) \o body :
        linkType \in {ETHERNET, 101}, body \in FrameRecords(order, MaxFrames) }

ParseSources ==
    UNION { Prefixes(f) : f \in CaptureFiles(BigEndian) \cup CaptureFiles(LittleEndian) }
    \cup { m \o FileHeaderBytes(BigEndian, ETHERNET) : m \in BadMagics }

---------------------------------------------------------------------------
(* Parse *)

NoMagic == [ok |-> FALSE, order |-> NoOrder, err |-> Nil, n |-> 0]

\* no decoder is called on its own
NoUnit == [op |-> "none"]

Init ==
    /\ src \in ParseSources
    /\ pos = 0
    /\ pc = "checkMagicNum"
    /\ magicOut = NoMagic
    /\ file = NewPcapFile
    /\ err = Nil
    /\ unit = NoUnit

\* _, flipped, err := checkMagicNum(src); if err != nil { return *file, err }
ParseCheckMagicNum ==
    /\ pc = "checkMagicNum"
    /\ LET r == checkMagicNum(Drop(src, pos))
       IN /\ magicOut' = r
          /\ err' = r.err
          /\ pos' = pos + r.n
          /\ pc' = IF r.err # Nil THEN "returned" ELSE "populateFileHeader"
    /\ UNCHANGED <<src, file, unit>>

\* err = populateFileHeader(file, src, flipped), the early return, and
\* file.Packets = make([]Packet, 0)
ParsePopulateFileHeader ==
    /\ pc = "populateFileHeader"
    /\ LET r == readFileHeader(file, Drop(src, pos), magicOut.order)
       IN /\ file' = r.file
          /\ err' = r.err
          /\ pos' = pos + r.n
          /\ pc' = IF r.err # Nil THEN "returned" ELSE "loop"
    /\ UNCHANGED <<src, magicOut, unit>>

\* file.Packets = append(file.Packets, *pkt), whatever err is
AppendPacket(packets, pkt, e) == Append(packets, pkt)

\* a mutant of ParsePacket: the loop goes on after every error but io.EOF
ParsePacketPastError ==
    /\ pc = "loop"
    /\ err # EOF
    /\ LET r == Packet_ReadFrom(Drop(src, pos), magicOut.order, file.LinkType)
       IN /\ file' = [file EXCEPT !.Packets = AppendPacket(@, r.pkt, r.err)]
          /\ err' = r.err
          /\ pos' = pos + r.n
          /\ pc' = "loop"
    /\ UNCHANGED <<src, magicOut, unit>>

\* one iteration of "for err == nil": a packet is read and appended.  A
\* panic in a decoder ends the program.
ParsePacket ==
    /\ pc = "loop"
    /\ err = Nil
    /\ LET r == Packet_ReadFrom(Drop(src, pos), magicOut.order, file.LinkType)
       IN IF r.err = Panic
          THEN /\ pc' = "panicked"
               /\ err' = r.err
               /\ UNCHANGED <<pos, file>>
          ELSE /\ file' = [file EXCEPT
                              !.Packets = AppendPacket(@, r.pkt, r.err)]
               /\ err' = r.err
               /\ pos' = pos + r.n
               /\ pc' = "loop"
    /\ UNCHANGED <<src, magicOut, unit>>

\* the loop has ended: io.EOF is switched to nil and Parse returns
ParseReturn ==
    /\ pc = "loop"
    /\ err # Nil
    /\ err' = IF err = EOF THEN Nil ELSE err
    /\ pc' = "returned"
    /\ UNCHANGED <<src, pos, magicOut, file, unit>>

Next ==
    \/ ParseCheckMagicNum
    \/ ParsePopulateFileHeader
    \/ ParsePacket
    \/ ParseReturn

Spec == Init /\ [][Next]_vars

\* the frames of the files of the termination check: frames of a raw
\* link, and frames an Ethernet decoder refuses in its first reads
LiveFrames ==
    { SubSeq(EthernetHeaderBytes(2054, FALSE), 1, 12),
      <<9, 9, 9, 9>>,
      <<>> }

RECURSIVE LiveRecords(_, _)
LiveRecords(order, k) ==
    IF k = 0 THEN {<<>>}
    ELSE {<<>>} \cup
         { PacketHeaderBytes(order, Len(f)) \o f \o rest :
             f \in LiveFrames, rest \in LiveRecords(order, k - 1) }

LiveFiles(order, linkType) ==
    { MagicOf(order) \o FileHeaderBytes(order, linkType) \o body :
        body \in LiveRecords(order, MaxFrames) }

\* files of both byte orders: whole and truncated files of a raw link, and
\* whole files of Ethernet frames
LiveSources ==
    UNION { Prefixes(f) :
              f \in LiveFiles(BigEndian, 101) \cup LiveFiles(LittleEndian, 101) }
    \cup LiveFiles(BigEndian, ETHERNET) \cup LiveFiles(LittleEndian, ETHERNET)

InitLive ==
    /\ src \in LiveSources
    /\ pos = 0
    /\ pc = "checkMagicNum"
    /\ magicOut = NoMagic
    /\ file = NewPcapFile
    /\ err = Nil
    /\ unit = NoUnit

\* Parse is one sequential call: as long as it has not returned, its next
\* statement is executed.
SpecLive == InitLive /\ [][Next]_vars /\ WF_vars(Next)

---------------------------------------------------------------------------
(* The decoders called one at a time, as the package's tests call them *)

NoOut == [err |-> "none"]

UnitCall(op, data, order, linkType) ==
    [op |-> op, data |-> data, order |-> order, linkType |-> linkType,
     done |-> FALSE, out |-> NoOut]

\* per-frame headers, whole and cut short, and one byte of the frame
PacketHeaderInputs(order) ==
    Prefixes(PacketHeaderBytes(order, 96) \o <<250>>) \cup {<<250>>}

\* file headers (without the magic number), whole and cut short
FileHeaderInputs(order) ==
    Prefixes(FileHeaderBytes(order, ETHERNET) \o <<250>>) \cup {<<250>>}

\* the length-or-type values of the Ethernet frames
LengthOrTypeValues ==
    {0, 100, 1535, 1536, 1537, ETHERTYPE_IPV4, 2054, 33024, ETHERTYPE_IPV6,
     65535}

\* the IP protocol numbers of the datagrams
Protocols == {IPP_TCP, IPP_UDP, IPP_SCTP, 1, 255}

\* what follows the Ethernet header
LinkPayloads ==
    { IPv4DatagramBytes(p, pad) : p \in Protocols, pad \in {0, 2} }
    \cup { IPv6DatagramBytes(p, pad) : p \in Protocols, pad \in {0, 2} }
    \cup { <<7, 8, 9, 10>> }

\* captured frames: every length-or-type value over a payload that suits it
\* or not, with and without a VLAN tag, whole and cut short
LinkFrames ==
    UNION { Prefixes(EthernetHeaderBytes(v, tagged) \o payload) :
              v \in {ETHERTYPE_IPV4, ETHERTYPE_IPV6}, tagged \in BOOLEAN,
              payload \in LinkPayloads }
    \cup { EthernetHeaderBytes(v, tagged) \o payload :
              v \in LengthOrTypeValues, tagged \in BOOLEAN,
              payload \in { IPv4DatagramBytes(1, 2), IPv6DatagramBytes(1, 0),
                            <<7, 8, 9, 10>>, <<>> } }

\* the number of bytes that follow an IPv4 header in the inputs
IPv4BodyLengths == {0, 4, 24, 44, 64}

\* IPv4 headers without a body: every value of byte 1 under a few values
\* of byte 6, and every value of byte 6 under a few values of byte 7 and
\* every value of byte 7 under a few values of byte 6
IPv4FieldInputs ==
    { IPv4HeaderBytes(4, 5, tos, 20, flags, 0, 1) :
        tos \in 0..255, flags \in {0, 32, 64, 96, 191} }
    \cup { IPv4HeaderBytes(4, 5, 0, 20, flags, frag, 1) :
             flags \in 0..255, frag \in {0, 1, 255} }
    \cup { IPv4HeaderBytes(4, 5, 0, 20, flags, frag, 1) :
             flags \in {0, 1, 31, 127, 255}, frag \in 0..255 }

\* IPv4 datagrams of every header-length nibble and total length, over
\* bodies of a few lengths; two that are not version 4 or cut short
IPv4Inputs ==
    { IPv4HeaderBytes(4, ihl, 0, tl, 64, 0, 1) \o [i \in 1..bl |-> i] :
        ihl \in 0..15, tl \in 0..MaxTotalLength, bl \in IPv4BodyLengths }
    \cup { IPv4HeaderBytes(6, 5, 0, 24, 64, 0, 1) \o <<1, 2, 3, 4>>,
           SubSeq(IPv4HeaderBytes(4, 5, 0, 24, 64, 0, 1), 1, 12) }
    \cup IPv4FieldInputs
    \cup { IPv4HeaderBytes(v, 5, 0, 24, 64, 0, 1) \o <<1, 2, 3, 4>> :
             v \in 0..15 }

\* IPv6 headers without payload: every low nibble of byte 0 under a few
\* values of byte 1 and every value of byte 1 under three values of byte
\* 0, every value of byte 2 and of byte 3; every next-header value
\* over a TCP header; datagrams of the protocols with and without bytes
\* after the declared payload, whole and cut short; one of version 4
IPv6Inputs ==
    { IPv6HeaderBytes(b0, b1, 0, 59) :
        b0 \in 96..111, b1 \in {0, 1, 15, 16, 92, 165, 240, 255} }
    \cup { IPv6HeaderBytes(b0, b1, 0, 59) :
             b0 \in {96, 106, 111}, b1 \in 0..255 }
    \cup { [IPv6HeaderBytes(96, 165, 0, 59) EXCEPT ![3] = b] : b \in 0..255 }
    \cup { [IPv6HeaderBytes(96, 165, 0, 59) EXCEPT ![4] = b] : b \in 0..255 }
    \cup { IPv6HeaderBytes(96, 0, 22, nh) \o TCPHeaderBytes(5, 24) \o <<71, 10>> :
             nh \in 0..255 }
    \cup UNION { Prefixes(IPv6DatagramBytes(p, pad)) :
                   p \in Protocols, pad \in {0, 2} }
    \cup { IPv6HeaderBytes(v * 16 + 5, 0, 4, 59) \o <<1, 2, 3, 4>> :
             v \in 0..15 }

\* UDP datagrams: every declared length around the header size over a few
\* payload lengths, and the datagram of TestUDPGood; whole and cut short
UDPInputs ==
    UNION { Prefixes(UDPHeaderBytes(length) \o [i \in 1..bl |-> 70 + i]) :
              length \in {0, 7, 8, 9, 10, 12, 50}, bl \in {0, 2, 4} }
    \cup { <<8, 80, 0, 53, 0, 50, 131, 151>> \o [i \in 1..42 |-> i] }

\* the values of header byte 13 of the TCP segments: no bit, every single
\* bit, every bit but one, and all bits
FlagBytes ==
    {0, 255} \cup {1, 2, 4, 8, 16, 32, 64, 128}
        \cup {254, 253, 251, 247, 239, 223, 191, 127}

\* the number of bytes after the 20-byte TCP header: none and a few
TCPBodyLengths == {0, 6}

\* TCP segments: every value of header byte 12 over FlagBytes, short and
\* (under flags ACK and PSH) with the most bytes that (HeaderSize - 5) * 4
\* can ask for; every value of header byte 13 under header sizes 5 and 8
\* with NS clear and set
TCPInputs ==
    { <<11, 32, 26, 11, 0, 0, 0, 1, 0, 0, 0, 2, b12, b13, 31, 75, 109, 46, 0, 0>>
        \o [i \in 1..bl |-> i] :
        b12 \in 0..255, b13 \in FlagBytes, bl \in TCPBodyLengths }
    \cup { <<11, 32, 26, 11, 0, 0, 0, 1, 0, 0, 0, 2, b12, 24, 31, 75, 109, 46, 0, 0>>
             \o [i \in 1..252 |-> i % 256] : b12 \in 0..255 }
    \cup { <<11, 32, 26, 11, 0, 0, 0, 1, 0, 0, 0, 2, b12, b13, 31, 75, 109, 46, 0, 0>>
             \o [i \in 1..12 |-> i] :
             b12 \in {80, 81, 128, 129}, b13 \in 0..255 }
    \cup Prefixes(TCPHeaderBytes(5, 24))

\* the most chunks in a segment of the inputs
MaxChunks == 2

\* the padding after a chunk or parameter of declared length L
Pad(L) == Zeros((4 - (L % 4)) % 4)

\* a chunk: type, flags 0, declared length L, and what follows its header
Chunk(type, L, body) == <<type, 0>> \o PutUint16(L, BigEndian) \o body

\* a parameter: type, declared length PL, and what follows its header
Param(type, PL, body) ==
    PutUint16(type, BigEndian) \o PutUint16(PL, BigEndian) \o body

\* the fixed fields of an INIT chunk
InitFixed == <<0, 0, 0, 1, 0, 0, 0, 2, 0, 3, 0, 4, 0, 0, 0, 5>>

\* chunks of a type without a decoder, of declared lengths 4..16
UnknownChunks ==
    { Chunk(200, L, [i \in 1..(L - 4) |-> 100 + i] \o Pad(L)) : L \in 4..16 }

\* DATA chunks of 0..4 payload bytes
DataChunks ==
    { Chunk(0, L, <<0, 0, 0, 1, 0, 2, 0, 3, 0, 0, 0, 4>>
                    \o [i \in 1..(L - 16) |-> 80 + i] \o Pad(L)) :
        L \in 16..20 }

\* INIT and INIT ACK chunks: without parameters, with parameters that need
\* no padding, with a parameter of length 6 before another or last, with a
\* declared length below 20, and with a parameter of declared length 0..3
InitChunks ==
    { Chunk(1, 20, InitFixed),
      Chunk(1, 28, InitFixed \o Param(5, 8, <<10, 0, 0, 1>>)),
      Chunk(1, 36, InitFixed \o Param(5, 8, <<10, 0, 0, 1>>)
                       \o Param(9, 8, <<0, 0, 0, 60>>)),
      Chunk(2, 36, InitFixed \o Param(5, 8, <<10, 0, 0, 1>>)
                       \o Param(9, 8, <<0, 0, 0, 60>>)),
      Chunk(1, 40, InitFixed \o Param(6, 20, [i \in 1..16 |-> i])),
      Chunk(1, 36, InitFixed \o Param(32768, 6, <<1, 2>>) \o <<0, 0>>
                       \o Param(5, 8, <<10, 0, 0, 1>>)),
      Chunk(1, 26, InitFixed \o Param(32768, 6, <<1, 2>>) \o <<0, 0>>) }
    \cup { Chunk(1, L, InitFixed) : L \in 17..19 }
    \cup { Chunk(1, 24, InitFixed \o Param(32768, PL, <<>>)) : PL \in 0..3 }

\* HEARTBEAT and HEARTBEAT ACK chunks with the one parameter they own, of
\* declared length P; one whose parameter declares 4 bytes fewer than it
\* has; and three of declared length below 4
HeartbeatChunks ==
    { Chunk(t, 4 + P, Param(1, P, [i \in 1..(P - 4) |-> 40 + i]) \o Pad(P)) :
        t \in {4, 5}, P \in {4, 5, 8} }
    \cup { Chunk(4, 12, Param(1, 4, <<41, 42, 43, 44>>)) }
    \cup { Chunk(4, L, <<>>) : L \in 1..3 }

\* ERROR chunks: without causes, with one, with one of length 6 before
\* another, of declared length below 4, and with a cause of declared
\* length 0..3
ErrorChunks ==
    { Chunk(9, 4, <<>>),
      Chunk(9, 12, Param(7, 8, <<1, 2, 3, 4>>)),
      Chunk(9, 16, Param(7, 6, <<1, 2>>) \o <<0, 0>> \o Param(8, 4, <<>>)) }
    \cup { Chunk(9, L, <<>>) : L \in 1..3 }
    \cup { Chunk(9, 8, Param(7, PL, <<>>)) : PL \in 0..3 }

\* a SACK chunk with g gap-ack blocks and d duplicate TSNs
SackChunk(g, d) ==
    Chunk(3, 16 + 4 * g + 4 * d,
          <<0, 0, 0, 9, 0, 0, 16, 0>> \o PutUint16(g, BigEndian)
              \o PutUint16(d, BigEndian)
              \o [i \in 1..(4 * g) |-> 20 + i]
              \o [i \in 1..(4 * d) |-> 60 + i])

SackChunks == { SackChunk(g, d) : g \in 0..2, d \in 0..2 }

\* the chunks of fixed size, and COOKIE ECHO with cookies of 0, 3 and 4 bytes
OtherChunks ==
    { Chunk(6, 8, <<0, 0, 0, 9>>), Chunk(7, 8, <<0, 0, 0, 9>>),
      Chunk(8, 4, <<>>), Chunk(11, 4, <<>>), Chunk(14, 4, <<>>) }
    \cup { Chunk(10, 4 + c, [i \in 1..c |-> 30 + i] \o Pad(c)) : c \in {0, 3, 4} }

\* chunk headers declaring no length and the largest lengths, over 4 bytes
ExtremeChunks ==
    { Chunk(200, L, <<1, 2, 3, 4>>) : L \in {0, 65532, 65533, 65534, 65535} }

\* the chunks a segment of the inputs starts with
FirstChunks ==
    UnknownChunks \cup DataChunks \cup InitChunks \cup HeartbeatChunks
        \cup ErrorChunks \cup SackChunks \cup OtherChunks \cup ExtremeChunks

\* the chunks that follow: an unknown one of length 5, a DATA chunk of two
\* payload bytes and a COOKIE ACK
Followers ==
    { Chunk(201, 5, <<55, 0, 0, 0>>),
      Chunk(0, 18, <<0, 0, 0, 1, 0, 2, 0, 3, 0, 0, 0, 4, 81, 82, 0, 0>>),
      Chunk(11, 4, <<>>) }

RECURSIVE FollowerSeqs(_)
FollowerSeqs(k) ==
    IF k = 0 THEN {<<>>}
    ELSE {<<>>} \cup { f \o r : f \in Followers, r \in FollowerSeqs(k - 1) }

\* what follows the common header of a segment: up to MaxChunks chunks,
\* whole and cut short
SCTPBodies ==
    UNION { Prefixes(c \o r) :
              c \in FirstChunks, r \in FollowerSeqs(MaxChunks - 1) }

SCTPCommonHeader == <<0, 7, 0, 9, 0, 0, 0, 1, 0, 0, 0, 2>>

SCTPInputs ==
    { SCTPCommonHeader \o b : b \in SCTPBodies }
        \cup Prefixes(SCTPCommonHeader)

\* SACK chunks given to their decoder: whole, cut short, and one whose
\* count of duplicate TSNs makes 16 + 4g + 4d pass 65535
SackInputs ==
    UNION { Prefixes(c) : c \in SackChunks }
    \cup { <<3, 0, 0, 16, 0, 0, 0, 9, 0, 0, 16, 0, 0, 0, 63, 252>>,
           <<0, 0, 0, 16, 0, 0, 0, 9, 0, 0, 16, 0, 0, 0, 0, 0>> }

\* the FromBytes methods of the chunk variants that parseSCTPChunk makes
ChunkDecoders ==
    {"SCTPChunkData.FromBytes", "SCTPChunkInit.FromBytes",
     "SCTPChunkInitAck.FromBytes", "SCTPChunkHeartbeat.FromBytes",
     "SCTPChunkHeartbeatAck.FromBytes", "SCTPChunkAbort.FromBytes",
     "SCTPChunkShutdown.FromBytes", "SCTPChunkShutdownAck.FromBytes",
     "SCTPChunkError.FromBytes", "SCTPChunkCookieEcho.FromBytes",
     "SCTPChunkCookieAck.FromBytes", "SCTPChunkShutdownComplete.FromBytes"}

\* the FromBytes methods of the parameter variants with a type of their own
ParameterDecoders ==
    {"SCTPChunkParameterIPv4Sender.FromBytes",
     "SCTPChunkParameterIPv6Sender.FromBytes",
     "SCTPChunkParameterCookieLifespanInc.FromBytes",
     "SCTPChunkParameterHeartbeatInfo.FromBytes"}

\* 20 bytes that start with a chunk header of each type 0..15
TaggedChunks == { <<t, 0, 0, 20>> \o Zeros(16) : t \in 0..15 }

\* 20 bytes that start with a parameter header of each type 0..15
TaggedParameters == { <<0, t, 0, 20>> \o Zeros(16) : t \in 0..15 }

\* a call of a loop, run one iteration at a time: out.data holds the bytes
\* that are left and init tells the parameter parser
LoopCall(op, data, init) ==
    [op |-> op, data |-> data, order |-> BigEndian, linkType |-> 0,
     done |-> FALSE, out |-> [err |-> Nil, data |-> data], init |-> init]

\* chunk headers of every type declaring length 0 and the lengths that
\* round to 0 in 16 bits
ZeroLengthChunks ==
    { Chunk(t, L, <<>>) : t \in 0..15, L \in {0, 65533, 65534, 65535} }

\* the bytes given to the chunk loop: a chunk alone and before a COOKIE ACK
ChunkLoopInputs ==
    { c \o r : c \in FirstChunks \cup ZeroLengthChunks,
               r \in {<<>>, Chunk(11, 4, <<>>)} }

\* parameters of the known and of an unknown type, the last one not padded,
\* and parameter headers declaring lengths 0..3
LoopParameters ==
    { Param(5, 8, <<10, 0, 0, 1>>), Param(9, 8, <<0, 0, 0, 60>>),
      Param(6, 20, [i \in 1..16 |-> i]), Param(32768, 4, <<>>),
      Param(32768, 8, <<1, 2, 3, 4>>), Param(32768, 6, <<1, 2>>),
      <<0, 5>> }
    \cup { Param(t, PL, <<>>) : t \in {5, 6, 9, 32768}, PL \in 0..3 }

\* the bytes given to the parameter loop
ParameterLoopInputs ==
    { p \o r : p \in LoopParameters,
               r \in {<<>>, Param(5, 8, <<10, 0, 0, 1>>)} }

\* the frames of the records given to Packet.ReadFrom
PacketFrames ==
    { EthernetHeaderBytes(v, FALSE) \o payload :
        v \in {ETHERTYPE_IPV4, ETHERTYPE_IPV6}, payload \in LinkPayloads }
    \cup { EthernetHeaderBytes(ETHERTYPE_IPV4, TRUE) \o IPv4DatagramBytes(17, 0),
           EthernetHeaderBytes(2054, FALSE) \o <<9, 9, 9, 9>>,
           SubSeq(EthernetHeaderBytes(2054, FALSE), 1, 12),
           <<>> }

\* frame records: a per-frame header in the given order and the frame
PacketRecords(order) ==
    { PacketHeaderBytes(order, Len(f)) \o f : f \in PacketFrames }
    \cup Prefixes(PacketHeaderBytes(order, 4))

\* the calls of op on the inputs of set inputs
CallsOf(op, inputs) == { UnitCall(op, d, BigEndian, 0) : d \in inputs }

InitUnit ==
    /\ src = <<>>
    /\ pos = 0
    /\ pc = "unit"
    /\ magicOut = NoMagic
    /\ file = NewPcapFile
    /\ err = Nil
    /\ \/ \E op \in ChunkDecoders : unit \in CallsOf(op, TaggedChunks)
       \/ \E op \in ParameterDecoders : unit \in CallsOf(op, TaggedParameters)
       \/ unit \in CallsOf("UDPDatagram.FromBytes", UDPInputs)
       \/ unit \in CallsOf("TCPSegment.ReadFrom", TCPInputs)
       \/ unit \in CallsOf("SCTPSegment.ReadFrom", SCTPInputs)
       \/ unit \in CallsOf("SCTPChunkSack.FromBytes", SackInputs)
       \/ unit \in CallsOf("SCTPChunkSack.FromBytes", TaggedChunks)
       \/ unit \in { LoopCall("parseSCTPChunks", d, FALSE) :
                        d \in ChunkLoopInputs }
       \/ unit \in { LoopCall("parseSCTPChunkParameters", d, init) :
                        d \in ParameterLoopInputs, init \in BOOLEAN }
       \/ \E o \in Orders :
             unit \in { UnitCall("readPacketHeader", d, o, 0) :
                          d \in PacketHeaderInputs(o) }
       \/ \E o \in Orders :
             unit \in { UnitCall("readFileHeader", d, o, 0) :
                          d \in FileHeaderInputs(o) }
       \/ \E o \in Orders :
             unit \in { UnitCall("Packet.ReadFrom", d, o, l) :
                          d \in PacketRecords(o), l \in {ETHERNET, 101} }
       \/ unit \in { UnitCall("readLinkData", d, BigEndian, l) :
                        d \in LinkFrames, l \in LinkTypes }
       \/ unit \in CallsOf("IPv4Packet.ReadFrom", IPv4Inputs)
       \/ unit \in CallsOf("IPv6Packet.ReadFrom", IPv6Inputs)

\* err := pkt.readPacketHeader(in, order)
CallReadPacketHeader ==
    /\ unit.op = "readPacketHeader" /\ ~unit.done
    /\ unit' = [unit EXCEPT !.done = TRUE,
                            !.out = readPacketHeader(unit.data, unit.order)]
    /\ UNCHANGED <<src, pos, pc, magicOut, file, err>>

\* err := fle.readFileHeader(in, order)
CallReadFileHeader ==
    /\ unit.op = "readFileHeader" /\ ~unit.done
    /\ unit' = [unit EXCEPT !.done = TRUE,
                            !.out = readFileHeader(NewPcapFile, unit.data,
                                                   unit.order)]
    /\ UNCHANGED <<src, pos, pc, magicOut, file, err>>

\* err := pkt.ReadFrom(src, order, linkType)
CallPacketReadFrom ==
    /\ unit.op = "Packet.ReadFrom" /\ ~unit.done
    /\ unit' = [unit EXCEPT !.done = TRUE,
                            !.out = Packet_ReadFrom(unit.data, unit.order,
                                                    unit.linkType)]
    /\ UNCHANGED <<src, pos, pc, magicOut, file, err>>

\* pkt.Data, err = p.readLinkData(packetReader, order, linkType)
CallReadLinkData ==
    /\ unit.op = "readLinkData" /\ ~unit.done
    /\ unit' = [unit EXCEPT !.done = TRUE,
                            !.out = readLinkData(unit.data, unit.order,
                                                 unit.linkType)]
    /\ UNCHANGED <<src, pos, pc, magicOut, file, err>>

\* err := new(IPv4Packet).ReadFrom(src)
CallIPv4ReadFrom ==
    /\ unit.op = "IPv4Packet.ReadFrom" /\ ~unit.done
    /\ unit' = [unit EXCEPT !.done = TRUE,
                            !.out = IPv4Packet_ReadFrom(unit.data)]
    /\ UNCHANGED <<src, pos, pc, magicOut, file, err>>

\* err := new(IPv6Packet).ReadFrom(src)
CallIPv6ReadFrom ==
    /\ unit.op = "IPv6Packet.ReadFrom" /\ ~unit.done
    /\ unit' = [unit EXCEPT !.done = TRUE,
                            !.out = IPv6Packet_ReadFrom(unit.data)]
    /\ UNCHANGED <<src, pos, pc, magicOut, file, err>>

\* err := new(UDPDatagram).FromBytes(data)
CallUDPFromBytes ==
    /\ unit.op = "UDPDatagram.FromBytes" /\ ~unit.done
    /\ unit' = [unit EXCEPT !.done = TRUE,
                            !.out = UDPDatagram_FromBytes(unit.data)]
    /\ UNCHANGED <<src, pos, pc, magicOut, file, err>>

\* err := new(TCPSegment).ReadFrom(src)
CallTCPReadFrom ==
    /\ unit.op = "TCPSegment.ReadFrom" /\ ~unit.done
    /\ unit' = [unit EXCEPT !.done = TRUE,
                            !.out = TCPSegment_ReadFrom(unit.data)]
    /\ UNCHANGED <<src, pos, pc, magicOut, file, err>>

\* the segment decoded and what its TransportData returns
WithTransportData(r) ==
    r @@ [transportData |-> SCTPSegment_TransportData(r.pkt)]

\* s := new(SCTPSegment); err := s.ReadFrom(src); s.TransportData()
CallSCTPReadFrom ==
    /\ unit.op = "SCTPSegment.ReadFrom" /\ ~unit.done
    /\ unit' = [unit EXCEPT !.done = TRUE,
                            !.out = WithTransportData(
                                        SCTPSegment_ReadFrom(unit.data))]
    /\ UNCHANGED <<src, pos, pc, magicOut, file, err>>

\* err := new(SCTPChunkSack).FromBytes(data)
CallSackFromBytes ==
    /\ unit.op = "SCTPChunkSack.FromBytes" /\ ~unit.done
    /\ unit' = [unit EXCEPT !.done = TRUE,
                            !.out = SCTPChunkSack_FromBytes(unit.data)]
    /\ UNCHANGED <<src, pos, pc, magicOut, file, err>>

\* chunk.FromBytes(data) for a chunk of the variant that op names
ChunkFromBytes(op, data) ==
    CASE op = "SCTPChunkData.FromBytes" -> SCTPChunkData_FromBytes(data)
      [] op = "SCTPChunkInit.FromBytes" -> SCTPChunkInit_FromBytes(data)
      [] op = "SCTPChunkInitAck.FromBytes" -> SCTPChunkInitAck_FromBytes(data)
      [] op = "SCTPChunkHeartbeat.FromBytes" ->
            SCTPChunkHeartbeat_FromBytes(data)
      [] op = "SCTPChunkHeartbeatAck.FromBytes" ->
            SCTPChunkHeartbeatAck_FromBytes(data)
      [] op = "SCTPChunkAbort.FromBytes" -> SCTPChunkAbort_FromBytes(data)
      [] op = "SCTPChunkShutdown.FromBytes" -> SCTPChunkShutdown_FromBytes(data)
      [] op = "SCTPChunkShutdownAck.FromBytes" ->
            SCTPChunkHeaderOnly_FromBytes("SCTPChunkShutdownAck", 8, data)
      [] op = "SCTPChunkError.FromBytes" -> SCTPChunkError_FromBytes(data)
      [] op = "SCTPChunkCookieEcho.FromBytes" ->
            SCTPChunkCookieEcho_FromBytes(data)
      [] op = "SCTPChunkCookieAck.FromBytes" ->
            SCTPChunkHeaderOnly_FromBytes("SCTPChunkCookieAck", 11, data)
      [] op = "SCTPChunkShutdownComplete.FromBytes" ->
            SCTPChunkHeaderOnly_FromBytes("SCTPChunkShutdownComplete", 14,
                                          data)

\* parameter.FromBytes(data) for a parameter of the variant that op names
ParameterFromBytes(op, data) ==
    CASE op = "SCTPChunkParameterIPv4Sender.FromBytes" ->
            SCTPChunkParameterIPv4Sender_FromBytes(data)
      [] op = "SCTPChunkParameterIPv6Sender.FromBytes" ->
            SCTPChunkParameterIPv6Sender_FromBytes(data)
      [] op = "SCTPChunkParameterCookieLifespanInc.FromBytes" ->
            SCTPChunkParameterCookieLifespanInc_FromBytes(data)
      [] op = "SCTPChunkParameterHeartbeatInfo.FromBytes" ->
            SCTPChunkParameterHeartbeatInfo_FromBytes(data)

\* err := chunk.FromBytes(data), chunk of a variant other than SACK
CallChunkFromBytes ==
    /\ unit.op \in ChunkDecoders /\ ~unit.done
    /\ unit' = [unit EXCEPT !.done = TRUE,
                            !.out = ChunkFromBytes(unit.op, unit.data)]
    /\ UNCHANGED <<src, pos, pc, magicOut, file, err>>

\* err := parameter.FromBytes(data)
CallParameterFromBytes ==
    /\ unit.op \in ParameterDecoders /\ ~unit.done
    /\ unit' = [unit EXCEPT !.done = TRUE,
                            !.out = ParameterFromBytes(unit.op, unit.data)]
    /\ UNCHANGED <<src, pos, pc, magicOut, file, err>>

\* "for len(data) > 0": the test of the loop of parseSCTPChunks and, when
\* bytes are left, one iteration; the loop ends when the test fails or the
\* iteration returns an error
ChunkLoopIteration ==
    /\ unit.op = "parseSCTPChunks" /\ ~unit.done
    /\ unit' = IF Len(unit.out.data) = 0
               THEN [unit EXCEPT !.done = TRUE]
               ELSE [unit EXCEPT
                        !.out = chunkLoopIteration(unit.out.data),
                        !.done = chunkLoopIteration(unit.out.data).err # Nil]
    /\ UNCHANGED <<src, pos, pc, magicOut, file, err>>

\* the same for the loop of parseSCTPChunkParameters
ParameterLoopIteration ==
    /\ unit.op = "parseSCTPChunkParameters" /\ ~unit.done
    /\ unit' = IF Len(unit.out.data) = 0
               THEN [unit EXCEPT !.done = TRUE]
               ELSE [unit EXCEPT
                        !.out = parameterLoopIteration(unit.out.data,
                                                       unit.init),
                        !.done = parameterLoopIteration(unit.out.data,
                                                        unit.init).err # Nil]
    /\ UNCHANGED <<src, pos, pc, magicOut, file, err>>

NextUnit ==
    \/ ChunkLoopIteration
    \/ ParameterLoopIteration
    \/ CallChunkFromBytes
    \/ CallParameterFromBytes
    \/ CallSCTPReadFrom
    \/ CallSackFromBytes
    \/ CallUDPFromBytes
    \/ CallTCPReadFrom
    \/ CallReadPacketHeader
    \/ CallReadFileHeader
    \/ CallPacketReadFrom
    \/ CallReadLinkData
    \/ CallIPv4ReadFrom
    \/ CallIPv6ReadFrom

SpecUnit == InitUnit /\ [][NextUnit]_vars

---------------------------------------------------------------------------
(* Properties of Parse *)

\* whether a source starts with one of the two magic numbers
HasMagic(s) ==
    /\ Len(s) >= 4
    /\ SubSeq(s, 1, 4) \in {<<161, 178, 195, 212>>, <<212, 195, 178, 161>>}

\* the byte order the magic number of a source selects
OrderOf(s) ==
    IF SubSeq(s, 1, 4) = <<212, 195, 178, 161>> THEN LittleEndian
    ELSE BigEndian

\* the link type the file header of a source declares
LinkTypeOf(s) == Uint32(SubSeq(s, 21, 24), OrderOf(s))

\* the captured length the per-frame header at the start of data declares
CapturedLen(data, order) == Uint32(SubSeq(data, 9, 12), order)

\* data is a sequence of whole frame records each of which every layer
\* decodes without error
RECURSIVE CleanRecords(_, _, _)
CleanRecords(data, order, linkType) ==
    \/ Len(data) = 0
    \/ /\ Len(data) >= 16
       /\ Len(data) - 16 >= CapturedLen(data, order)
       /\ readLinkData(SubSeq(data, 17, 16 + CapturedLen(data, order)),
                       order, linkType).err = Nil
       /\ CleanRecords(Drop(data, 16 + CapturedLen(data, order)),
                       order, linkType)

\* C1: Parse returns a nil error only when the input ends exactly on a
\* frame-record boundary and no layer decoder failed; a decoder that fails
\* because the frame's bytes ran out is never turned into a clean end.
ParseNilOnlyOnCleanEnd ==
    (pc = "returned" /\ err = Nil) =>
        /\ HasMagic(src)
        /\ Len(src) >= 24
        /\ CleanRecords(Drop(src, 24), OrderOf(src), LinkTypeOf(src))

\* the number of the first frame of data whose decoding does not return nil,
\* counting from k, and the error it returns
RECURSIVE FailedFrame(_, _, _, _)
FailedFrame(data, order, linkType, k) ==
    LET r == Packet_ReadFrom(data, order, linkType)
    IN IF r.err # Nil THEN [k |-> k, err |-> r.err]
       ELSE FailedFrame(Drop(data, r.n), order, linkType, k + 1)

\* C2: if decoding fails on frame k, the PcapFile returned by Parse has
\* exactly k-1 entries in Packets, and the error is the one of frame k.
FailureKeepsDecodedFrames ==
    (pc = "returned" /\ err # Nil /\ HasMagic(src) /\ Len(src) >= 24) =>
        LET f == FailedFrame(Drop(src, 24), OrderOf(src), LinkTypeOf(src), 1)
        IN /\ Len(file.Packets) = f.k - 1
           /\ err = f.err

\* the number of frame records data is made of, -1 when data does not split
\* into whole records
RECURSIVE CompleteRecords(_, _)
CompleteRecords(data, order) ==
    IF Len(data) = 0 THEN 0
    ELSE IF Len(data) < 16 \/ Len(data) - 16 < CapturedLen(data, order)
    THEN 0 - 1
    ELSE LET m == CompleteRecords(Drop(data, 16 + CapturedLen(data, order)),
                                  order)
         IN IF m < 0 THEN m ELSE m + 1

\* C3: when Parse returns nil for a magic number, a file header and exactly
\* n complete frame records, Packets has exactly n entries.
CleanEndKeepsEveryRecord ==
    (/\ pc = "returned" /\ err = Nil
     /\ HasMagic(src) /\ Len(src) >= 24
     /\ CompleteRecords(Drop(src, 24), OrderOf(src)) >= 0) =>
        Len(file.Packets) = CompleteRecords(Drop(src, 24), OrderOf(src))

\* C4: checkMagicNum succeeds with big-endian on a1 b2 c3 d4, with
\* little-endian on d4 c3 b2 a1, fails with NotAPcapFile on every other four
\* bytes and with InsufficientLength on fewer than four bytes; on failure
\* the flag is false and the byte order nil.
MagicNumberDetection ==
    pc \in {"populateFileHeader", "loop", "returned", "panicked"} =>
        /\ (Len(src) >= 4 /\ SubSeq(src, 1, 4) = <<161, 178, 195, 212>>) =>
               magicOut.ok /\ magicOut.order = BigEndian /\ magicOut.err = Nil
        /\ (Len(src) >= 4 /\ SubSeq(src, 1, 4) = <<212, 195, 178, 161>>) =>
               magicOut.ok /\ magicOut.order = LittleEndian
                 /\ magicOut.err = Nil
        /\ (Len(src) >= 4 /\ ~HasMagic(src)) =>
               ~magicOut.ok /\ magicOut.order = NoOrder
                 /\ magicOut.err = NotAPcapFile
        /\ Len(src) < 4 =>
               ~magicOut.ok /\ magicOut.order = NoOrder
                 /\ magicOut.err = InsufficientLength

\* a source of one to three bytes has been refused
MagicNumberWitness ==
    /\ pc = "returned"
    /\ Len(src) \in 1..3
    /\ magicOut.err = InsufficientLength

\* C7: for every frame whose header declares captured length c and whose c
\* bytes are present, processing the frame advances the source by exactly
\* 16 + c bytes, whatever the layer decoders do.
FrameAdvance ==
    [][(/\ pc = "loop" /\ pc' = "loop"
        /\ Len(src) - pos >= 16
        /\ Len(src) - pos - 16 >= CapturedLen(Drop(src, pos), magicOut.order))
       => pos' = pos + 16 + CapturedLen(Drop(src, pos), magicOut.order)]_vars

\* a first frame of 40 bytes of which the decoders took 38 (an IPv4
\* datagram of 24 bytes and two bytes of padding) has been passed, and
\* more of the source follows
FrameAdvanceWitness ==
    /\ pc = "loop"
    /\ err = Nil
    /\ Len(file.Packets) = 1
    /\ file.Packets[1].Data.data.kind = "IPv4Packet"
    /\ Len(file.Packets[1].Data.data.data.data) = 4
    /\ pos = 80
    /\ Len(src) > pos

---------------------------------------------------------------------------
(* Properties of the decoders *)

\* C5: reading a per-frame header from a source that holds between 1 and 15
\* bytes fails with InsufficientLength; only a source with no byte left
\* yields the end of input.
ShortPacketHeader ==
    (unit.op = "readPacketHeader" /\ unit.done) =>
        /\ Len(unit.data) \in 1..15 => unit.out.err = InsufficientLength
        /\ unit.out.err = EOF => Len(unit.data) = 0

\* C6: reading the file header from a source that holds fewer than 20 bytes
\* fails with the package's UnexpectedEOF.
ShortFileHeader ==
    (unit.op = "readFileHeader" /\ unit.done /\ Len(unit.data) < 20) =>
        unit.out.err = UnexpectedEOF

\* where the length-or-type value of an Ethernet frame stands: after the
\* addresses, or after a VLAN tag 81 00 xx xx that follows them
TypeOffset(d) == IF SubSeq(d, 13, 14) = <<129, 0>> THEN 16 ELSE 12

\* the frame holds its Ethernet header
HeaderPresent(d) == Len(d) >= 14 /\ Len(d) >= TypeOffset(d) + 2

\* the 16-bit length-or-type value of a frame that holds its header
LengthOrType(d) == d[TypeOffset(d) + 1] * 256 + d[TypeOffset(d) + 2]

\* the bytes of the frame after its Ethernet header
AfterEthernet(d) == SubSeq(d, TypeOffset(d) + 3, Len(d))

\* the Unknown variants, holding bytes
OpaqueTransport(bytes) == [kind |-> "UnknownTransport", data |-> bytes]

OpaqueINet(bytes) == [kind |-> "UnknownINet", data |-> OpaqueTransport(bytes)]

\* the protocol numbers with a decoder: TCP, UDP and SCTP
KnownProtocols == {6, 17, 132}

\* the option bytes an IPv4 header declares
IPv4OptionBytes(ip) == IF ip[1] % 16 > 5 THEN ((ip[1] % 16) - 5) * 4 ELSE 0

\* TotalLength less four times the header-length nibble, in 16 bits
IPv4PayloadBytes(ip) ==
    (ip[3] * 256 + ip[4] + 65536 - (ip[1] % 16) * 4) % 65536

\* a version 4 datagram that holds its header, its options and the bytes
\* declared after them
IPv4Dispatches(ip) ==
    /\ Len(ip) >= 20
    /\ ip[1] \div 16 = 4
    /\ Len(ip) >= 20 + IPv4OptionBytes(ip) + IPv4PayloadBytes(ip)

\* a version 6 datagram that holds its fixed header
IPv6Dispatches(ip) == Len(ip) >= 40 /\ ip[1] \div 16 = 6

\* the dispatch on the link type and on the ether-type, and the dispatch on
\* the next header of IPv6: the Unknown variant holds every byte left
UnknownAboveIPv4 ==
    (unit.op = "readLinkData" /\ unit.done) =>
        /\ unit.linkType # 1 =>
              /\ unit.out.err = Nil
              /\ unit.out.pkt = [kind |-> "UnknownLink",
                                 data |-> OpaqueINet(unit.data)]
        /\ (/\ unit.linkType = 1 /\ HeaderPresent(unit.data)
            /\ LengthOrType(unit.data) \notin {2048, 34525}) =>
              /\ unit.out.err = Nil
              /\ unit.out.pkt.data = OpaqueINet(AfterEthernet(unit.data))
        /\ (/\ unit.linkType = 1 /\ HeaderPresent(unit.data)
            /\ LengthOrType(unit.data) = 34525
            /\ IPv6Dispatches(AfterEthernet(unit.data))
            /\ AfterEthernet(unit.data)[7] \notin KnownProtocols) =>
              /\ unit.out.err = Nil
              /\ unit.out.pkt.data.data =
                     OpaqueTransport(SubSeq(AfterEthernet(unit.data), 41,
                                            Len(AfterEthernet(unit.data))))

\* an IPv4 datagram of an unknown protocol inside an Ethernet frame
UnknownProtocolInFrame ==
    /\ unit.op = "readLinkData" /\ unit.done
    /\ unit.linkType = 1 /\ HeaderPresent(unit.data)
    /\ LengthOrType(unit.data) = 2048
    /\ IPv4Dispatches(AfterEthernet(unit.data))
    /\ AfterEthernet(unit.data)[10] \notin KnownProtocols

\* an IPv4 datagram of an unknown protocol given to the decoder itself
UnknownProtocolAlone ==
    /\ unit.op = "IPv4Packet.ReadFrom" /\ unit.done
    /\ IPv4Dispatches(unit.data)
    /\ unit.data[10] \notin KnownProtocols

\* the bytes of datagram ip from the end of its options on, len of them
IPv4Rest(ip, len) ==
    SubSeq(ip, 21 + IPv4OptionBytes(ip), 20 + IPv4OptionBytes(ip) + len)

\* every byte of datagram ip from the end of its options on
IPv4After(ip) == SubSeq(ip, 21 + IPv4OptionBytes(ip), Len(ip))

\* C8 as claimed: at the link-type, ether-type and IP-protocol dispatch
\* points every tag outside the known set yields the Unknown variant whose
\* UnknownTransport holds exactly the remaining bytes of the frame, and the
\* dispatch returns no error.
UnknownHoldsRestOfFrame ==
    /\ UnknownAboveIPv4
    /\ UnknownProtocolInFrame =>
          /\ unit.out.err = Nil
          /\ unit.out.pkt.data.data =
                 OpaqueTransport(IPv4After(AfterEthernet(unit.data)))

\* C8 as amended: at the IPv4 protocol dispatch the UnknownTransport holds
\* the TotalLength - 4*IHL (mod 2^16) bytes that follow the header and its
\* options; at the link-type, ether-type and IPv6 next-header dispatch it
\* holds every remaining byte of the frame; no dispatch returns an error.
UnknownHoldsWhatItIsHanded ==
    /\ UnknownAboveIPv4
    /\ UnknownProtocolInFrame =>
          /\ unit.out.err = Nil
          /\ unit.out.pkt.data.data =
                 OpaqueTransport(IPv4Rest(AfterEthernet(unit.data),
                     IPv4PayloadBytes(AfterEthernet(unit.data))))
    /\ UnknownProtocolAlone =>
          /\ unit.out.err = Nil
          /\ unit.out.pkt.data =
                 OpaqueTransport(IPv4Rest(unit.data,
                                          IPv4PayloadBytes(unit.data)))

\* a frame with bytes after the IPv4 datagram of an unknown protocol it
\* carries has been decoded
UnknownHoldsWitness ==
    /\ UnknownProtocolInFrame
    /\ Len(AfterEthernet(unit.data)) >
           20 + IPv4OptionBytes(AfterEthernet(unit.data))
              + IPv4PayloadBytes(AfterEthernet(unit.data))
    /\ unit.out.pkt.data.data.kind = "UnknownTransport"

\* C9: the length-or-type value v of a decoded Ethernet frame sets exactly
\* one field: Length = v and EtherType = 0 if v < 1536, else EtherType = v
\* and Length = 0; the child is IPv4 only for 0x0800, IPv6 only for 0x86DD
\* and UnknownINet for every other v.
EthernetLengthOrType ==
    (/\ unit.op = "readLinkData" /\ unit.done
     /\ unit.linkType = 1 /\ HeaderPresent(unit.data)) =>
        LET v == LengthOrType(unit.data)
            e == unit.out.pkt
        IN /\ e.kind = "EthernetFrame"
           /\ v < 1536 => e.Length = v /\ e.EtherType = 0
           /\ v >= 1536 => e.EtherType = v /\ e.Length = 0
           /\ e.data.kind = "IPv4Packet" <=> v = 2048
           /\ e.data.kind = "IPv6Packet" <=> v = 34525
           /\ v \notin {2048, 34525} => e.data.kind = "UnknownINet"

\* a frame whose value is the largest length has been decoded
EthernetLengthWitness ==
    /\ unit.op = "readLinkData" /\ unit.done
    /\ unit.linkType = 1 /\ HeaderPresent(unit.data)
    /\ LengthOrType(unit.data) = 1535
    /\ unit.out.pkt.Length = 1535

\* C10: for every successfully decoded IPv4 datagram the header bytes (20
\* and the options) plus the bytes handed to the transport decoder equal
\* TotalLength, for every header-length nibble; no byte beyond TotalLength
\* is handed on, and a TotalLength smaller than the header does not decode.
IPv4LengthAccounting ==
    (unit.op = "IPv4Packet.ReadFrom" /\ unit.done /\ unit.out.err = Nil) =>
        LET TotalLength == unit.data[3] * 256 + unit.data[4]
        IN /\ 20 + IPv4OptionBytes(unit.data) + Len(unit.out.handed)
                = TotalLength
           /\ unit.out.handed =
                 SubSeq(unit.data, 21 + IPv4OptionBytes(unit.data), TotalLength)
           /\ TotalLength >= 20 + IPv4OptionBytes(unit.data)

---------------------------------------------------------------------------
(* Properties of the transport decoders *)

\* C11: a decoded UDP datagram's payload has length exactly Length - 8:
\* bytes beyond the declared length are not part of it, fewer than
\* Length - 8 payload bytes fail with InsufficientLength, and fewer than 8
\* bytes fail with InsufficientLength.
UDPPayloadLength ==
    (unit.op = "UDPDatagram.FromBytes" /\ unit.done) =>
        LET Length == unit.data[5] * 256 + unit.data[6]
        IN /\ Len(unit.data) < 8 => unit.out.err = InsufficientLength
           /\ (Len(unit.data) >= 8 /\ Len(unit.data) < Length) =>
                 unit.out.err = InsufficientLength
           /\ unit.out.err = Nil =>
                 /\ Len(unit.out.pkt.data) = Length - 8
                 /\ unit.out.pkt.data = SubSeq(unit.data, 9, Length)

\* whether the bit of value m (a power of two) is set in byte b
HasBit(b, m) == b % (2 * m) >= m

\* C12: in a decoded TCP segment HeaderSize is the top 4 bits of header
\* byte 12, NS is bit 0x01 of that byte, and CWR, ECE, URG, ACK, PSH, RST,
\* SYN, FIN are bits 0x80 .. 0x01 of header byte 13; each flag is true
\* exactly when its bit is set.
TCPFlagBits ==
    (unit.op = "TCPSegment.ReadFrom" /\ unit.done /\ Len(unit.data) >= 20) =>
        LET t == unit.out.pkt
            b12 == unit.data[13]
            b13 == unit.data[14]
        IN /\ t.HeaderSize = b12 \div 16
           /\ t.NS <=> HasBit(b12, 1)
           /\ t.CWR <=> HasBit(b13, 128)
           /\ t.ECE <=> HasBit(b13, 64)
           /\ t.URG <=> HasBit(b13, 32)
           /\ t.ACK <=> HasBit(b13, 16)
           /\ t.PSH <=> HasBit(b13, 8)
           /\ t.RST <=> HasBit(b13, 4)
           /\ t.SYN <=> HasBit(b13, 2)
           /\ t.FIN <=> HasBit(b13, 1)

\* a segment with header size 8, ACK and PSH set and no other flag has been
\* decoded without error
TCPFlagBitsWitness ==
    /\ unit.op = "TCPSegment.ReadFrom" /\ unit.done
    /\ unit.out.err = Nil
    /\ unit.data[13] = 128 /\ unit.data[14] = 24
    /\ unit.out.pkt.HeaderSize = 8
    /\ unit.out.pkt.ACK /\ unit.out.pkt.PSH /\ ~unit.out.pkt.SYN

\* the Data fields of the chunks of type 0 (DATA), in order
RECURSIVE DataOfDataChunks(_)
DataOfDataChunks(chunks) ==
    IF chunks = <<>> THEN <<>>
    ELSE (IF Head(chunks).Type = 0 THEN Head(chunks).Data ELSE <<>>)
            \o DataOfDataChunks(Tail(chunks))

\* C13: TransportData of a segment is the concatenation, in chunk order, of
\* the Data fields of exactly its DATA chunks; any other chunk contributes
\* no bytes and a segment without a DATA chunk yields no bytes.
TransportDataIsDataOfDataChunks ==
    (unit.op = "SCTPSegment.ReadFrom" /\ unit.done) =>
        LET chunks == unit.out.pkt.Chunks
        IN /\ unit.out.transportData = DataOfDataChunks(chunks)
           /\ (\A i \in 1..Len(chunks) : chunks[i].Type # 0) =>
                 unit.out.transportData = <<>>

\* a segment of an unknown chunk that holds bytes and a DATA chunk that
\* holds bytes has been decoded, and its transport data is the DATA chunk's
TransportDataWitness ==
    /\ unit.op = "SCTPSegment.ReadFrom" /\ unit.done
    /\ unit.out.err = Nil
    /\ Len(unit.out.pkt.Chunks) = 2
    /\ unit.out.pkt.Chunks[1].kind = "SCTPChunkUnknown"
    /\ Len(unit.out.pkt.Chunks[1].Data) > 0
    /\ unit.out.pkt.Chunks[2].kind = "SCTPChunkData"
    /\ Len(unit.out.pkt.Chunks[2].Data) > 0
    /\ unit.out.transportData = unit.out.pkt.Chunks[2].Data

\* a length rounded up to the next multiple of 4
RoundUp4(L) == ((L + 3) \div 4) * 4

\* the bytes of the decoded chunks on the wire, by their declared lengths
RECURSIVE WireSize(_)
WireSize(chunks) ==
    IF chunks = <<>> THEN 0
    ELSE RoundUp4(Head(chunks).Length) + WireSize(Tail(chunks))

\* what follows the common header of the segment given to the decoder
SCTPBody == Drop(unit.data, 12)

\* the declared length of the chunk that starts at offset o of body
DeclaredLengthAt(body, o) == body[o + 3] * 256 + body[o + 4]

\* the offset of the first chunk of body, from offset o on, for which fewer
\* bytes remain than its declared length rounded up (fewer than 4 cannot
\* hold a chunk), or -1 if there is none
RECURSIVE ShortChunkFrom(_, _)
ShortChunkFrom(body, o) ==
    IF o >= Len(body) THEN -1
    ELSE IF Len(body) - o < 4 THEN o
    ELSE IF Len(body) - o < RoundUp4(DeclaredLengthAt(body, o)) THEN o
    ELSE IF DeclaredLengthAt(body, o) = 0 THEN -1
    ELSE ShortChunkFrom(body, o + RoundUp4(DeclaredLengthAt(body, o)))

\* C14: when a chunk sequence decodes, every chunk of declared length L
\* took L rounded up to a multiple of 4 bytes, the spans are contiguous and
\* add up to the whole input; a chunk for which fewer bytes remain, reached
\* after chunks that decode, fails with InsufficientLength; for every
\* 16-bit declared length.
ChunksConsumeRoundedLength ==
    (unit.op = "SCTPSegment.ReadFrom" /\ unit.done /\ Len(unit.data) >= 12) =>
        LET chunks == unit.out.pkt.Chunks
            short == ShortChunkFrom(SCTPBody, 0)
        IN /\ unit.out.err = Nil =>
                 /\ WireSize(chunks) = Len(SCTPBody)
                 /\ \A i \in 1..Len(chunks) :
                       LET o == WireSize(SubSeq(chunks, 1, i - 1))
                       IN /\ SCTPBody[o + 1] = chunks[i].Type
                          /\ DeclaredLengthAt(SCTPBody, o) = chunks[i].Length
           /\ (short >= 0 /\ parseSCTPChunks(Take(SCTPBody, short)).err = Nil)
                 => unit.out.err = InsufficientLength

\* a DATA chunk of declared length 17 and an unknown chunk of declared
\* length 5 have been decoded from 20 + 8 bytes
ChunksConsumeWitness ==
    /\ unit.op = "SCTPSegment.ReadFrom" /\ unit.done
    /\ unit.out.err = Nil
    /\ Len(unit.out.pkt.Chunks) = 2
    /\ unit.out.pkt.Chunks[1].Length = 17
    /\ unit.out.pkt.Chunks[2].Length = 5
    /\ Len(SCTPBody) = 28

\* a chunk header that declares length 65533 over 4 bytes has been refused
ChunksNearMaxLength ==
    /\ unit.op = "SCTPSegment.ReadFrom" /\ unit.done
    /\ Len(SCTPBody) = 8
    /\ DeclaredLengthAt(SCTPBody, 0) = 65533
    /\ unit.out.err = InsufficientLength

\* C15: the payload of a decoded chunk holds no padding: a DATA chunk of
\* declared length L holds L - 16 bytes of Data and an Unknown chunk of
\* declared length L holds L - 4 bytes, also when L is not a multiple of 4.
PayloadHoldsNoPadding ==
    (unit.op = "SCTPSegment.ReadFrom" /\ unit.done /\ unit.out.err = Nil) =>
        \A i \in 1..Len(unit.out.pkt.Chunks) :
            LET c == unit.out.pkt.Chunks[i]
            IN /\ c.kind = "SCTPChunkData" => Len(c.Data) = c.Length - 16
               /\ c.kind = "SCTPChunkUnknown" => Len(c.Data) = c.Length - 4

\* the declared length of the parameter that starts region
ParamLength(region) == region[3] * 256 + region[4]

\* the type of the parameter that starts region
ParamType(region) == region[1] * 256 + region[2]

\* what follows the first parameter of region and its padding
AfterParam(region) ==
    Drop(region, Min(RoundUp4(ParamLength(region)), Len(region)))

\* region is a sequence of well-formed parameters, each but the last
\* padded to a multiple of 4 bytes: a header, a declared length that the
\* bytes present cover, and the size its type fixes
RECURSIVE WellFormedParams(_)
WellFormedParams(region) ==
    \/ region = <<>>
    \/ /\ Len(region) >= 4
       /\ ParamLength(region) >= 4
       /\ ParamLength(region) <= Len(region)
       /\ ParamType(region) \in {5, 9} => ParamLength(region) = 8
       /\ ParamType(region) = 6 => ParamLength(region) = 20
       /\ WellFormedParams(AfterParam(region))

\* the types of the parameters of a well-formed region, in wire order
RECURSIVE ParamTypes(_)
ParamTypes(region) ==
    IF region = <<>> THEN <<>>
    ELSE <<ParamType(region)>> \o ParamTypes(AfterParam(region))

\* the chunk types of SCTPChunkType
KnownChunkTypes == (0..11) \cup {14}

\* body starts with a well-formed chunk: a header, a declared length that
\* the bytes present cover with its padding, and a body of the form of its
\* type
WellFormedChunk(body) ==
    /\ Len(body) >= 4
    /\ LET t == body[1]
           L == DeclaredLengthAt(body, 0)
       IN /\ L >= 4
          /\ Len(body) >= RoundUp4(L)
          /\ CASE t = 0 -> L >= 16
               [] t \in {1, 2} ->
                     L >= 20 /\ WellFormedParams(SubSeq(body, 21, L))
               [] t = 3 ->
                     /\ L >= 16
                     /\ L = 16 + 4 * (body[13] * 256 + body[14])
                               + 4 * (body[15] * 256 + body[16])
               [] t \in {4, 5} ->
                     /\ L >= 8
                     /\ ParamType(SubSeq(body, 5, L)) = 1
                     /\ ParamLength(SubSeq(body, 5, L)) = L - 4
               [] t \in {6, 7} -> L = 8
               [] t \in {8, 11, 14} -> L = 4
               [] t = 9 -> WellFormedParams(SubSeq(body, 5, L))
               [] OTHER -> TRUE

\* what follows the first chunk of body and its padding
AfterChunk(body) == Drop(body, RoundUp4(DeclaredLengthAt(body, 0)))

\* the number of chunks of body if it is a sequence of well-formed chunks,
\* otherwise -1
RECURSIVE WellFormedChunkCount(_)
WellFormedChunkCount(body) ==
    IF body = <<>> THEN 0
    ELSE IF ~WellFormedChunk(body) THEN -1
    ELSE LET k == WellFormedChunkCount(AfterChunk(body))
         IN IF k < 0 THEN -1 ELSE k + 1

\* the bytes of body from its i-th chunk on
RECURSIVE FromChunk(_, _)
FromChunk(body, i) ==
    IF i = 1 THEN body ELSE FromChunk(AfterChunk(body), i - 1)

\* chunk c is what the bytes at, a well-formed chunk and what follows it,
\* decode to: an Unknown entry with the body for a type that is not known,
\* an INIT entry with its fields and parameters for type 1
EntryOf(c, at) ==
    LET L == DeclaredLengthAt(at, 0)
    IN /\ c.Type = at[1]
       /\ c.Length = L
       /\ at[1] \notin KnownChunkTypes =>
             c.kind = "SCTPChunkUnknown" /\ c.Data = SubSeq(at, 5, L)
       /\ at[1] = 1 =>
             /\ c.kind = "SCTPChunkInit"
             /\ c.InitiateTag = getUint32(Slice(at, 4, 4), FALSE)
             /\ c.AdvertisedReceiverWindowCredit =
                   getUint32(Slice(at, 8, 4), FALSE)
             /\ c.NumOutboundStreams = at[13] * 256 + at[14]
             /\ c.NumInboundStreams = at[15] * 256 + at[16]
             /\ c.InitialTSN = getUint32(Slice(at, 16, 4), FALSE)
             /\ Len(c.Parameters) = Len(ParamTypes(SubSeq(at, 21, L)))
             /\ \A j \in 1..Len(c.Parameters) :
                   c.Parameters[j].Type = ParamTypes(SubSeq(at, 21, L))[j]

\* C16: a segment body of k well-formed chunks decodes to k entries in
\* wire order; a chunk of a type that is not known becomes an Unknown
\* entry with its body and the chunks after it are decoded as they would
\* be; an INIT chunk becomes an INIT entry with its fields and parameters.
WellFormedChunksAllDecoded ==
    (/\ unit.op = "SCTPSegment.ReadFrom" /\ unit.done
     /\ Len(unit.data) >= 12
     /\ WellFormedChunkCount(SCTPBody) >= 1) =>
        /\ unit.out.err = Nil
        /\ Len(unit.out.pkt.Chunks) = WellFormedChunkCount(SCTPBody)
        /\ \A i \in 1..Len(unit.out.pkt.Chunks) :
              EntryOf(unit.out.pkt.Chunks[i], FromChunk(SCTPBody, i))

\* an INIT chunk with one address parameter followed by a chunk of an
\* unknown type has been decoded to an INIT entry and an Unknown entry
AlignedChunksAllDecoded ==
    /\ unit.op = "SCTPSegment.ReadFrom" /\ unit.done
    /\ Len(unit.data) = 12 + 28 + 8
    /\ SCTPBody[1] = 1 /\ DeclaredLengthAt(SCTPBody, 0) = 28
    /\ SCTPBody[29] = 201
    /\ unit.out.err = Nil
    /\ Len(unit.out.pkt.Chunks) = 2
    /\ unit.out.pkt.Chunks[1].kind = "SCTPChunkInit"
    /\ Len(unit.out.pkt.Chunks[1].Parameters) = 1
    /\ unit.out.pkt.Chunks[2].kind = "SCTPChunkUnknown"

\* the segment body starts with a chunk of type t whose declared length is
\* below least, with the bytes of the chunk's fixed part present
DeclaresBelow(t, least) ==
    /\ Len(SCTPBody) >= least
    /\ SCTPBody[1] = t
    /\ DeclaredLengthAt(SCTPBody, 0) < least

\* the segment body is one chunk of type t whose parameters start at
\* offset at with an Unknown parameter of declared length below 4
FirstParameterBelow4(t, at) ==
    /\ Len(SCTPBody) = at + 4
    /\ SCTPBody[1] = t
    /\ DeclaredLengthAt(SCTPBody, 0) = at + 4
    /\ ParamType(Drop(SCTPBody, at)) \notin {1, 5, 6, 9}
    /\ ParamLength(Drop(SCTPBody, at)) < 4

\* C17: decoding any bytes in the chunk engine and its parameter decoder
\* ends with a result or one of the package's errors, never with an access
\* out of range; an INIT or INIT ACK chunk that declares less than 20, a
\* HEARTBEAT or ERROR chunk that declares less than 4 and an Unknown
\* parameter that declares less than 4 are InsufficientLength.
ChunkEngineStaysInRange ==
    (unit.op = "SCTPSegment.ReadFrom" /\ unit.done /\ Len(unit.data) >= 12) =>
        /\ unit.out.err # Panic
        /\ (DeclaresBelow(1, 20) \/ DeclaresBelow(2, 20)) =>
              unit.out.err = InsufficientLength
        /\ (DeclaresBelow(4, 4) \/ DeclaresBelow(5, 4) \/ DeclaresBelow(9, 4))
              => unit.out.err = InsufficientLength
        /\ (FirstParameterBelow4(1, 20) \/ FirstParameterBelow4(9, 4)) =>
              unit.out.err = InsufficientLength

\* parameter p is what the bytes at, a well-formed parameter and what
\* follows it, decode to; its payload ends where its declared length does
ParameterOf(p, at) ==
    /\ p.Type = ParamType(at)
    /\ p.Length = ParamLength(at)
    /\ p.kind = "SCTPChunkParameterUnknown" =>
          p.Data = SubSeq(at, 5, ParamLength(at))

\* the bytes of region from its j-th parameter on
RECURSIVE FromParam(_, _)
FromParam(region, j) ==
    IF j = 1 THEN region ELSE FromParam(AfterParam(region), j - 1)

\* the parameters of the one chunk of the segment body, which start at
\* offset at of it
ParamRegion(at) == SubSeq(SCTPBody, at + 1, DeclaredLengthAt(SCTPBody, 0))

\* the one chunk of the segment decodes, with the well-formed parameters
\* that start at offset at of it, each read where the one before it and
\* its padding end
ParametersReadAt(at) ==
    /\ unit.out.err = Nil
    /\ LET ps == unit.out.pkt.Chunks[1].Parameters
       IN /\ Len(ps) = Len(ParamTypes(ParamRegion(at)))
          /\ \A j \in 1..Len(ps) :
                ParameterOf(ps[j], FromParam(ParamRegion(at), j))

\* C18: in the parameters of an INIT, INIT ACK or ERROR chunk the header
\* after a parameter of declared length L is read L rounded up to a
\* multiple of 4 after that parameter's start; the padding is in neither
\* payload, and a parameter of length 6 followed by another gives two.
ParametersArePadded ==
    (/\ unit.op = "SCTPSegment.ReadFrom" /\ unit.done
     /\ Len(unit.data) >= 12
     /\ WellFormedChunkCount(SCTPBody) = 1) =>
        /\ SCTPBody[1] \in {1, 2} => ParametersReadAt(20)
        /\ SCTPBody[1] = 9 => ParametersReadAt(4)

\* an INIT chunk with two parameters of length 8 has been decoded with
\* both
AlignedParametersDecoded ==
    /\ unit.op = "SCTPSegment.ReadFrom" /\ unit.done
    /\ Len(SCTPBody) = 36 /\ SCTPBody[1] = 1
    /\ unit.out.err = Nil
    /\ Len(unit.out.pkt.Chunks[1].Parameters) = 2
    /\ unit.out.pkt.Chunks[1].Parameters[2].kind =
          "SCTPChunkParameterCookieLifespanInc"

\* the 16-bit values of bytes, two bytes each, in order
Uint16sOf(bytes) ==
    [i \in 1..(Len(bytes) \div 2) |-> bytes[2 * i - 1] * 256 + bytes[2 * i]]

\* the 32-bit values of bytes, four bytes each, in order
Uint32sOf(bytes) ==
    [i \in 1..(Len(bytes) \div 4) |->
        getUint32(Slice(bytes, 4 * (i - 1), 4), FALSE)]

\* the gap-ack block count of the SACK chunk that starts bytes
GapCount(bytes) == bytes[13] * 256 + bytes[14]

\* the duplicate TSN count of the SACK chunk that starts bytes
DupCount(bytes) == bytes[15] * 256 + bytes[16]

\* the bytes a SACK chunk with the counts of bytes has
SackSize(bytes) == 16 + 4 * GapCount(bytes) + 4 * DupCount(bytes)

\* c is the SACK entry of the chunk bytes: the counts, the start and end
\* of every gap-ack block and the duplicate TSNs, in wire order
SackEntryOf(c, bytes) ==
    /\ c.kind = "SCTPChunkSack"
    /\ c.NumGapACKBlocks = GapCount(bytes)
    /\ c.GapACKBlocks = Uint16sOf(Slice(bytes, 16, 4 * GapCount(bytes)))
    /\ c.NumDuplicateTSNs = DupCount(bytes)
    /\ c.DuplicateTSNs =
          Uint32sOf(Slice(bytes, 16 + 4 * GapCount(bytes),
                          4 * DupCount(bytes)))

\* C19: a chunk of type 3 in a segment, with g gap-ack blocks, d duplicate
\* TSNs, declared length 16 + 4g + 4d and all its bytes, decodes to the
\* SACK variant with both counts and both arrays in wire order, for every
\* g and d; with fewer than 16 + 4g + 4d bytes the SACK decoder fails with
\* InsufficientLength, also when 16 + 4g + 4d is above 65535.
SackDecoded ==
    /\ (/\ unit.op = "SCTPSegment.ReadFrom" /\ unit.done
        /\ Len(unit.data) >= 12
        /\ WellFormedChunkCount(SCTPBody) = 1
        /\ SCTPBody[1] = 3) =>
           /\ unit.out.err = Nil
           /\ SackEntryOf(unit.out.pkt.Chunks[1], SCTPBody)
    /\ (/\ unit.op = "SCTPChunkSack.FromBytes" /\ unit.done
        /\ Len(unit.data) >= 16
        /\ unit.data[1] = 3) =>
           /\ Len(unit.data) < SackSize(unit.data) =>
                 unit.out.err = InsufficientLength
           /\ (/\ Len(unit.data) = SackSize(unit.data)
               /\ DeclaredLengthAt(unit.data, 0) = SackSize(unit.data)) =>
                 /\ unit.out.err = Nil
                 /\ SackEntryOf(unit.out, unit.data)

\* a SACK chunk without gap-ack blocks and with two duplicate TSNs has
\* been decoded by the SACK decoder
SackWithoutGapsDecoded ==
    /\ unit.op = "SCTPChunkSack.FromBytes" /\ unit.done
    /\ unit.out.err = Nil
    /\ unit.out.NumGapACKBlocks = 0
    /\ Len(unit.out.DuplicateTSNs) = 2
    /\ unit.out.DuplicateTSNs = Uint32sOf(Slice(unit.data, 16, 8))

\* C20: a HEARTBEAT or HEARTBEAT ACK chunk of declared length 4 + P whose
\* body is one heartbeat-info parameter of declared length P >= 4 decodes
\* and owns that parameter, whose Info is the P - 4 bytes after the
\* parameter header.
HeartbeatDecoded ==
    (/\ unit.op = "SCTPSegment.ReadFrom" /\ unit.done
     /\ Len(unit.data) >= 12
     /\ WellFormedChunkCount(SCTPBody) = 1
     /\ SCTPBody[1] \in {4, 5}) =>
        /\ unit.out.err = Nil
        /\ Len(unit.out.pkt.Chunks) = 1
        /\ unit.out.pkt.Chunks[1].kind =
              (IF SCTPBody[1] = 4 THEN "SCTPChunkHeartbeat"
               ELSE "SCTPChunkHeartbeatAck")
        /\ unit.out.pkt.Chunks[1].Parameter.Type = 1
        /\ unit.out.pkt.Chunks[1].Parameter.Length =
              DeclaredLengthAt(SCTPBody, 0) - 4
        /\ unit.out.pkt.Chunks[1].Parameter.Info =
              SubSeq(SCTPBody, 9, DeclaredLengthAt(SCTPBody, 0))

\* a HEARTBEAT chunk whose parameter declares 4 bytes fewer than the chunk
\* holds for it has been decoded
HeartbeatWithRoomDecoded ==
    /\ unit.op = "SCTPSegment.ReadFrom" /\ unit.done
    /\ Len(SCTPBody) = 12 /\ SCTPBody[1] = 4
    /\ unit.out.err = Nil
    /\ unit.out.pkt.Chunks[1].Parameter.Info = SubSeq(SCTPBody, 9, 12)

---------------------------------------------------------------------------
(* Properties of the header fields of the internet decoders *)

\* C21: in a decoded IPv4 packet FragmentOffset is the 13-bit value of the
\* low 5 bits of header byte 6 (high part) and header byte 7, that is
\* (byte6 & 0x1F) * 256 + byte7, for every value of the two bytes.
IPv4FragmentOffset ==
    (unit.op = "IPv4Packet.ReadFrom" /\ unit.done /\ unit.out.err = Nil) =>
        /\ unit.out.pkt.FragmentOffset =
              (unit.data[7] % 32) * 256 + unit.data[8]
        /\ unit.out.pkt.FragmentOffset \in 0..8191

\* a packet whose bytes 6 and 7 are 0 and 255 has been decoded with
\* fragment offset 255
IPv4FragmentOffsetLowByte ==
    /\ unit.op = "IPv4Packet.ReadFrom" /\ unit.done /\ unit.out.err = Nil
    /\ unit.data[7] = 0 /\ unit.data[8] = 255
    /\ unit.out.pkt.FragmentOffset = 255

\* C26: in a decoded IPv4 packet IHL is the low 4 bits of header byte 0,
\* DSCP the top 6 bits of byte 1, ECN the low 2 bits of byte 1,
\* DontFragment is true exactly when bit 0x40 of byte 6 is set and
\* MoreFragments exactly when bit 0x20 of byte 6 is set.
IPv4HeaderBits ==
    (unit.op = "IPv4Packet.ReadFrom" /\ unit.done /\ unit.out.err = Nil) =>
        LET p == unit.out.pkt
        IN /\ p.IHL = unit.data[1] % 16
           /\ p.DSCP = unit.data[2] \div 4 /\ p.DSCP \in 0..63
           /\ p.ECN = unit.data[2] % 4 /\ p.ECN \in 0..3
           /\ p.DontFragment <=> HasBit(unit.data[7], 64)
           /\ p.MoreFragments <=> HasBit(unit.data[7], 32)

\* a packet with byte 1 = 0xB9 and byte 6 = 0xBF (bit 0x20 set, bit 0x40
\* clear) has been decoded: DSCP 46, ECN 1, more fragments
IPv4HeaderBitsWitness ==
    /\ unit.op = "IPv4Packet.ReadFrom" /\ unit.done /\ unit.out.err = Nil
    /\ unit.data[2] = 185 /\ unit.data[7] = 191
    /\ unit.out.pkt.IHL = 5
    /\ unit.out.pkt.DSCP = 46 /\ unit.out.pkt.ECN = 1
    /\ ~unit.out.pkt.DontFragment /\ unit.out.pkt.MoreFragments

\* the option bytes of a TCP header of data offset h: max(0, h - 5) * 4
TCPOptionBytes(h) == IF h > 5 THEN (h - 5) * 4 ELSE 0

\* C22: for every TCP data offset h in 0..15 the decoder reads
\* max(0, h - 5) * 4 option bytes: for h <= 5 OptionData is empty and every
\* byte after the 20-byte header is payload; for h > 5 fewer than
\* (h - 5) * 4 bytes after the header is InsufficientLength; on success
\* 20 + len(OptionData) + len(TransportData) is the segment length.
TCPOptionLength ==
    (unit.op = "TCPSegment.ReadFrom" /\ unit.done /\ Len(unit.data) >= 20) =>
        LET h == unit.data[13] \div 16
            t == unit.out.pkt
        IN /\ h <= 5 =>
                 /\ unit.out.err = Nil
                 /\ t.OptionData = <<>>
                 /\ t.data = Drop(unit.data, 20)
           /\ (h > 5 /\ Len(unit.data) - 20 < TCPOptionBytes(h)) =>
                 unit.out.err = InsufficientLength
           /\ unit.out.err = Nil =>
                 /\ Len(t.OptionData) = TCPOptionBytes(h)
                 /\ 20 + Len(t.OptionData) + Len(t.data) = Len(unit.data)

\* a segment of data offset 8 with 252 bytes after its header has been
\* decoded with 12 option bytes and 240 bytes of payload
TCPOptionsRead ==
    /\ unit.op = "TCPSegment.ReadFrom" /\ unit.done /\ unit.out.err = Nil
    /\ unit.data[13] \div 16 = 8
    /\ Len(unit.data) = 272
    /\ unit.out.pkt.OptionData = SubSeq(unit.data, 21, 32)
    /\ unit.out.pkt.data = SubSeq(unit.data, 33, 272)

---------------------------------------------------------------------------
(* Properties of the VLAN tag *)

\* the 16-bit value at offset o of frame d
ValueAt(d, o) == d[o + 1] * 256 + d[o + 2]

\* frame e has v as its length-or-type value and the child v selects
UsesLengthOrType(e, v) ==
    /\ IF v < 1536 THEN e.Length = v /\ e.EtherType = 0
       ELSE e.EtherType = v /\ e.Length = 0
    /\ e.data.kind = (CASE v = 2048 -> "IPv4Packet"
                        [] v = 34525 -> "IPv6Packet"
                        [] OTHER -> "UnknownINet")

\* C24: when the 2 bytes after the Ethernet addresses are 0x8100, VLANTag
\* is 0x81, 0x00 and the next 2 bytes of the frame and the length-or-type
\* value is the 16-bit value after the tag; otherwise VLANTag is empty and
\* those 2 bytes are the length-or-type value.  A frame that ends inside
\* the tag or before the value after it fails with an error.
VLANTagRead ==
    (/\ unit.op = "readLinkData" /\ unit.done
     /\ unit.linkType = ETHERNET /\ Len(unit.data) >= 14) =>
        LET e == unit.out.pkt
        IN IF ValueAt(unit.data, 12) = 33024
           THEN IF Len(unit.data) >= 18
                THEN /\ e.VLANTag = SubSeq(unit.data, 13, 16)
                     /\ UsesLengthOrType(e, ValueAt(unit.data, 16))
                ELSE unit.out.err # Nil
           ELSE /\ e.VLANTag = <<>>
                /\ UsesLengthOrType(e, ValueAt(unit.data, 12))

\* a frame with the tag 81 00 00 05 before the value 0x0800 has been
\* decoded with an IPv4 child
VLANTagWitness ==
    /\ unit.op = "readLinkData" /\ unit.done
    /\ unit.linkType = ETHERNET /\ Len(unit.data) >= 38
    /\ unit.out.err = Nil
    /\ unit.out.pkt.VLANTag = <<129, 0, 0, 5>>
    /\ unit.out.pkt.EtherType = 2048
    /\ unit.out.pkt.data.kind = "IPv4Packet"

---------------------------------------------------------------------------
(* Properties of the IPv6 decoder *)

\* the payload length declared by the IPv6 header that starts d
IPv6PayloadLength(d) == d[5] * 256 + d[6]

\* C23: the IPv6 decoder hands its transport child exactly the payload
\* bytes of the datagram, as bounded by the 16-bit payload length: bytes
\* after the declared payload are in neither the transport segment nor its
\* application data.
IPv6HandsDeclaredPayload ==
    (unit.op = "IPv6Packet.ReadFrom" /\ unit.done /\ unit.out.err = Nil) =>
        /\ Len(unit.data) >= 40 + IPv6PayloadLength(unit.data)
        /\ unit.out.handed =
              SubSeq(unit.data, 41, 40 + IPv6PayloadLength(unit.data))

\* a datagram without bytes after its declared payload has been decoded,
\* and its child was handed that payload
IPv6ExactPayloadHanded ==
    /\ unit.op = "IPv6Packet.ReadFrom" /\ unit.done /\ unit.out.err = Nil
    /\ IPv6PayloadLength(unit.data) = 22
    /\ Len(unit.data) = 62
    /\ unit.out.handed = SubSeq(unit.data, 41, 62)

\* the variant readTransportLayer picks for an IP protocol number
TransportKind(protocol) ==
    CASE protocol = 6 -> "TCPSegment"
      [] protocol = 17 -> "UDPDatagram"
      [] protocol = 132 -> "SCTPSegment"
      [] OTHER -> "UnknownTransport"

\* C27: in a decoded IPv6 packet TrafficClass is (low nibble of byte 0) *
\* 16 + (high nibble of byte 1) and FlowLabel the 20-bit value (low nibble
\* of byte 1) * 65536 + byte 2 * 256 + byte 3, for all first four bytes of
\* version 6; the transport child is chosen from NextHeader as for the
\* IPv4 protocol field: 6 TCP, 17 UDP, 132 SCTP, anything else Unknown.
IPv6HeaderFields ==
    (/\ unit.op = "IPv6Packet.ReadFrom" /\ unit.done
     /\ Len(unit.data) >= 40 /\ unit.data[1] \div 16 = 6) =>
        LET p == unit.out.pkt
            d == unit.data
        IN /\ p.TrafficClass = (d[1] % 16) * 16 + d[2] \div 16
           /\ p.FlowLabel = (d[2] % 16) * 65536 + d[3] * 256 + d[4]
           /\ p.FlowLabel \in 0..1048575
           /\ p.NextHeader = d[7]
           /\ p.data.kind = TransportKind(d[7])

\* a packet with first bytes 6A 5C and next header 59 has been decoded:
\* traffic class 0xA5, flow label 0xC0304, an Unknown child
IPv6HeaderFieldsWitness ==
    /\ unit.op = "IPv6Packet.ReadFrom" /\ unit.done /\ unit.out.err = Nil
    /\ unit.data[1] = 106 /\ unit.data[2] = 92
    /\ unit.out.pkt.TrafficClass = 165
    /\ unit.out.pkt.FlowLabel = 12 * 65536 + 3 * 256 + 4
    /\ unit.out.pkt.data.kind = "UnknownTransport"

---------------------------------------------------------------------------
(* Properties of the tags the decoders own *)

\* the chunk types the chunk decoder that op names is made for
OwnChunkTypes(op) ==
    CASE op = "SCTPChunkData.FromBytes" -> {0}
      [] op \in {"SCTPChunkInit.FromBytes", "SCTPChunkInitAck.FromBytes"} ->
            {1, 2}
      [] op = "SCTPChunkSack.FromBytes" -> {3}
      [] op \in {"SCTPChunkHeartbeat.FromBytes",
                 "SCTPChunkHeartbeatAck.FromBytes"} -> {4, 5}
      [] op = "SCTPChunkAbort.FromBytes" -> {6}
      [] op = "SCTPChunkShutdown.FromBytes" -> {7}
      [] op = "SCTPChunkShutdownAck.FromBytes" -> {8}
      [] op = "SCTPChunkError.FromBytes" -> {9}
      [] op = "SCTPChunkCookieEcho.FromBytes" -> {10}
      [] op = "SCTPChunkCookieAck.FromBytes" -> {11}
      [] op = "SCTPChunkShutdownComplete.FromBytes" -> {14}

\* the parameter type the parameter decoder that op names is made for
OwnParameterType(op) ==
    CASE op = "SCTPChunkParameterIPv4Sender.FromBytes" -> 5
      [] op = "SCTPChunkParameterIPv6Sender.FromBytes" -> 6
      [] op = "SCTPChunkParameterCookieLifespanInc.FromBytes" -> 9
      [] op = "SCTPChunkParameterHeartbeatInfo.FromBytes" -> 1

\* C25: a concrete decoder given the bytes of its fixed fields and a tag
\* that is not its own fails with IncorrectPacket and builds no child: the
\* IPv4 decoder for a version other than 4, the IPv6 decoder for a version
\* other than 6, every concrete chunk and parameter decoder for a type
\* that is not its own (INIT takes 1 and 2, HEARTBEAT 4 and 5).
ForeignTagIsIncorrectPacket ==
    unit.done =>
        /\ (/\ unit.op = "IPv4Packet.ReadFrom" /\ Len(unit.data) >= 20
            /\ unit.data[1] \div 16 # 4) =>
               unit.out.err = IncorrectPacket /\ unit.out.pkt.data = NoLayer
        /\ (/\ unit.op = "IPv6Packet.ReadFrom" /\ Len(unit.data) >= 40
            /\ unit.data[1] \div 16 # 6) =>
               unit.out.err = IncorrectPacket /\ unit.out.pkt.data = NoLayer
        /\ (/\ unit.op \in ChunkDecoders \cup {"SCTPChunkSack.FromBytes"}
            /\ Len(unit.data) >= 20
            /\ unit.data[1] \notin OwnChunkTypes(unit.op)) =>
               unit.out.err = IncorrectPacket
        /\ (/\ unit.op \in ParameterDecoders
            /\ Len(unit.data) >= 20
            /\ unit.data[2] # OwnParameterType(unit.op)) =>
               unit.out.err = IncorrectPacket

\* the INIT decoder has refused the bytes of a HEARTBEAT chunk
ForeignTagRefused ==
    /\ unit.op = "SCTPChunkInit.FromBytes" /\ unit.done
    /\ unit.data[1] = 4
    /\ unit.out.err = IncorrectPacket

---------------------------------------------------------------------------
(* Properties of the byte order *)

OtherOrder(order) == IF order = BigEndian THEN LittleEndian ELSE BigEndian

\* the bytes of a 4-byte header field back to front
Reversed4(d, o) == <<d[o + 4], d[o + 3], d[o + 2], d[o + 1]>>

\* the frame record d with the four fields of its per-frame header encoded
\* in the opposite byte order and the frame bytes kept
InOtherOrder(d) ==
    Reversed4(d, 0) \o Reversed4(d, 4) \o Reversed4(d, 8) \o Reversed4(d, 12)
        \o Drop(d, 16)

\* the fields of link layer l and of an IPv4 child are the big-endian
\* values of the bytes of frame
BigEndianLayers(l, frame) ==
    /\ (l.kind = "EthernetFrame" /\ Len(frame) >= 14
           /\ ValueAt(frame, 12) # 33024) =>
          UsesLengthOrType(l, ValueAt(frame, 12))
    /\ (l.kind = "EthernetFrame" /\ Len(frame) >= 34
           /\ ValueAt(frame, 12) = 2048) =>
          /\ l.data.TotalLength = ValueAt(frame, 16)
          /\ l.data.ID = ValueAt(frame, 18)
          /\ l.data.Checksum = ValueAt(frame, 24)
    /\ (l.kind = "EthernetFrame" /\ Len(frame) >= 54
           /\ ValueAt(frame, 12) = 34525) =>
          l.data.Length = ValueAt(frame, 18)

\* results a and b of Packet.ReadFrom are the same error and the same packet
SameDecoding(a, b) == a.err = b.err /\ a.pkt = b.pkt /\ a.n = b.n

\* C28: a frame record and the record that encodes the same per-frame
\* header values in the opposite byte order and carries the same frame
\* bytes decode, each under its own order, to the same error and the same
\* packet, link, internet and transport layers included, and the 16-bit
\* fields of these layers are the big-endian values of the frame bytes
\* under either order.
ByteOrderOnlyInHeaders ==
    (unit.op = "Packet.ReadFrom" /\ unit.done /\ Len(unit.data) >= 16) =>
        /\ SameDecoding(unit.out,
                        Packet_ReadFrom(InOtherOrder(unit.data),
                                        OtherOrder(unit.order),
                                        unit.linkType))
        /\ BigEndianLayers(unit.out.pkt.Data, Drop(unit.data, 16))

\* a record of a little-endian file has been decoded down to an IPv4
\* packet whose ID is the big-endian value of bytes 76 ed
LittleEndianRecordDecoded ==
    /\ unit.op = "Packet.ReadFrom" /\ unit.done
    /\ unit.order = LittleEndian /\ Len(unit.data) >= 50
    /\ unit.out.err = Nil
    /\ unit.out.pkt.IncludedLen = Len(unit.data) - 16
    /\ unit.out.pkt.Data.kind = "EthernetFrame"
    /\ unit.out.pkt.Data.data.kind = "IPv4Packet"
    /\ unit.out.pkt.Data.data.ID = 30445
    /\ unit.out.pkt.Data.data.data.kind # "UnknownTransport"

---------------------------------------------------------------------------
(* Properties of the frame loop *)

\* Parse has returned, or a panic in a decoder has ended the program
Ended == {"returned", "panicked"}

\* a step of the frame loop: an iteration ends the loop or takes at least
\* the 16 bytes of a per-frame header, and after an error nothing is read
FrameLoopStep ==
    /\ (pc = "loop" /\ err = Nil) =>
          \/ pc' = "panicked"
          \/ err' # Nil
          \/ pos' >= pos + 16 /\ Len(file'.Packets) = Len(file.Packets) + 1
    /\ (pc = "loop" /\ err # Nil) =>
          /\ pc' = "returned"
          /\ pos' = pos
          /\ file' = file
    /\ pc \in Ended => UNCHANGED <<pos, file, err>>

\* C29: for every finite input Parse ends; each iteration of the frame
\* loop either ends the loop with an error or the end of input, or takes
\* at least the 16 bytes of a per-frame header from the source; and once
\* an iteration has returned an error no further frame is read.
ParseTerminates ==
    /\ <>(pc \in Ended)
    /\ [][FrameLoopStep]_vars

\* Parse has returned nil after a first frame of no bytes, a second frame
\* and the end of input, with every byte of the source read
EmptyFramePassed ==
    /\ pc = "returned" /\ err = Nil
    /\ Len(file.Packets) = 3
    /\ file.Packets[1].IncludedLen = 0
    /\ pos = Len(src)
    /\ pos >= 24 + 16 + 16

---------------------------------------------------------------------------
(* Properties of the chunk loop and the parameter loop *)

LoopOps == {"parseSCTPChunks", "parseSCTPChunkParameters"}

\* C30: every iteration of the chunk loop and of the parameter loop either
\* returns an error or leaves strictly fewer bytes than it found; so a
\* chunk or parameter whose declared length is 0, or rounds to 0 in 16
\* bits, makes its iteration return an error, and none is read again.
LoopsShrinkOrFail ==
    [][(unit.op \in LoopOps /\ ~unit.done /\ Len(unit.out.data) > 0) =>
          \/ unit'.out.err \notin {Nil, Panic}
          \/ /\ unit'.out.err = Nil
             /\ Len(unit'.out.data) < Len(unit.out.data)]_vars

====
